---- MODULE Spec2Model ----
(***************************************************************************)
(* Verification model of the TanQi life-cycle analysis agents.             *)
(*                                                                         *)
(*   - the tree-recursive controller (processDemandsRecursively and        *)
(*     analyzeCompleteLifeCycle),                                          *)
(*   - the canonical key of a requirement text,                             *)
(*   - the queue-flattened workflow graph,                                  *)
(*   - the batched fan-out of a grader stage.                               *)
(*                                                                         *)
(* A text is a sequence of one-character strings.  JavaScript runs the     *)
(* code between two awaits without interruption, so every action below is  *)
(* one such stretch of code: from the resumption of a promise to the next  *)
(* await or return.                                                        *)
(***************************************************************************)
EXTENDS Naturals, Integers, Sequences, FiniteSets, Bags, TLC

VARIABLES
    entry,              \* which exported entry point this run exercises
    initialDemand,      \* text of the top-level requirement
    alcPc,              \* position of analyzeCompleteLifeCycle
    processedDemands,   \* module-level Set<string> of canonical keys
    calls,              \* every call of processDemandsRecursively, by place in the call tree
    processSelectors,   \* bag of the calls that pushed a process_selector message
    workflowRestarters, \* bag of the calls that pushed a workflow_restarter message
    errors,             \* run-level errors returned by analyzeCompleteLifeCycle
    node,               \* queue-flattened graph: the stage to run next, or "__end__"
    messages,           \* its messages channel, as the stages and routers read it
    iteration_count,    \* its iteration_count channel
    demands,            \* its demands channel: the queue of pending sub-requirements
    current_demand_index,
    has_parallel_demands,
    extracted,          \* bag of the query texts demand_extractor sent to the oracle
    extracting,         \* demand_extractor awaits the answer to its query
    keyPc,              \* canonical key: how often the key function was applied
    keyInput,           \* the requirement text
    keyOnce,            \* its canonical key
    keyTwice,           \* the canonical key of its canonical key
    graderPc,           \* technical_grader: position
    processInfo,        \* the candidates to grade
    batchStart,         \* loop index i of the current batch
    grading,            \* the batchPromises started so far: batch and outcome
    allResponses,       \* candidates whose response was collected
    allGradedProcesses, \* candidates whose grade was collected
    selPc,              \* process_selector: position
    allProcesses,       \* the args of the final_summary messages, by process_UUID
    heterogeneity,      \* the args of the heterogeneity_evaluator message
    selectedProcessUUID,\* process_UUID of the oracle's process_selector tool call
    sumPc,              \* summarize_technical_grades: position
    grades,             \* the technical grades of one process
    summary,            \* final_technical_representativeness of its summary
    summaryAgain,       \* the same, of a second execution on the same grades
    judgePc,            \* flow_judger: position
    flowAnalystResults, \* the industry_specific_flows of the flow_analyst messages
    combinedFlows,      \* combined_flows of the oracle's flow_judger tool call
    resultsAgain,       \* the flow_analyst messages of a second execution
    combinedAgain,      \* combined_flows of the second execution
    finalPc,            \* final_summarizer: position
    technicalSummaries, \* the args of the technical_summary messages, oldest first
    spatialSummaries,   \* the args of the spatial_summary messages
    timeSummaries,      \* the args of the time_summary messages
    finalSummaries,     \* the args of the final_summary messages returned
    active,             \* lcaKeyGraph: the stages of the current step still executing
    finished,           \* the stages of the current step that have returned
    ran,                \* how often each stage has returned in this run
    work,               \* per grader and summary stage: calls to issue, awaited, responses
    fileExists,         \* the spreadsheet: whether the file is there
    workbook,           \* its sheets, by name: the rows sheet_to_json yields
    sheetPc,            \* extractSheetToJson: position
    sheetName,          \* its arguments
    filterConditions,
    extractColumns,
    sheetResult,        \* the value its JSON string stands for
    sheet_names,        \* lcaKeyAgent.ts: the module-level sheet_names, split at the commas
    srcPc,              \* the stage of the run to execute next
    upstream_process_info,  \* the channel title_matcher writes
    sourceFailed,       \* title_matcher's query of the process sheet yielded an error
    gradedRows,         \* processInfo of technical_grader: the rows sent to the oracle
    srcAwaits,          \* the stage srcPc names has issued its oracle call and awaits it
    srcGrading,         \* the three graders of the run: position, batch, results of the oracle calls
    oracleCalls,        \* the number of oracle calls issued in the run
    history,            \* a router of part_002: the messages it is called with
    route,              \* the name it returns, "" before the call
    otherPc,            \* position of a second invocation of analyzeCompleteLifeCycle
    otherCalls,         \* its calls of processDemandsRecursively, as calls
    otherResults        \* its arrays processSelectors, workflowRestarters and errors

ctlVars == <<initialDemand, alcPc, processedDemands, calls, processSelectors,
             workflowRestarters, errors>>

keyVars == <<keyPc, keyInput, keyOnce, keyTwice>>

graderVars == <<graderPc, processInfo, batchStart, grading, allResponses,
                allGradedProcesses>>

selVars == <<selPc, allProcesses, heterogeneity, selectedProcessUUID>>

sumVars == <<sumPc, grades, summary, summaryAgain>>

judgerVars == <<judgePc, flowAnalystResults, combinedFlows, resultsAgain, combinedAgain>>

\* the stages modelled one at a time, further to the ones above
finalVars == <<finalPc, technicalSummaries, spatialSummaries, timeSummaries,
               finalSummaries>>

engineVars == <<active, finished, ran, work>>

fileVars == <<fileExists, workbook>>

sheetVars == <<sheetPc, sheetName, filterConditions, extractColumns, sheetResult>>

sourceVars == <<sheet_names, srcPc, srcAwaits, upstream_process_info, sourceFailed, gradedRows, srcGrading,
                oracleCalls>>

routerVars == <<history, route>>

secondVars == <<otherPc, otherCalls, otherResults>>

stageVars == <<judgerVars, finalVars, engineVars, fileVars, sheetVars, sourceVars,
               routerVars, secondVars>>

queueVars == <<node, messages, iteration_count, demands, current_demand_index,
               has_parallel_demands, extracted, extracting>>

----------------------------------------------------------------------------
(* Bounds of the model and constants of the program *)

MAX_RECURSION_DEPTH == 3
CONCURRENCY_LIMIT == 5
KeyPrefixLen == 100

MaxNewDemands == 2
MaxQueued == 2
MaxExtractions == 14
MaxAffix == 2
MaxWaveDemands == 7
MaxCandidates == 7
MaxGrade == 3
MaxFlowCount == 2
MaxSamples == 3
MaxAnalyses == 2
MaxCombined == 2
MaxSummaries == 2
MaxRows == 2
MaxRouted == 12
batchSize == 5

Min(a, b) == IF a < b THEN a ELSE b

----------------------------------------------------------------------------
(* Canonical key: demand.trim().toLowerCase().substring(0, 100) *)

Whitespace == {" "}

toLowerCaseChar(c) ==
    CASE c = "A" -> "a"
      [] c = "B" -> "b"
      [] OTHER -> c

toLowerCase(t) == [i \in 1..Len(t) |-> toLowerCaseChar(t[i])]

RECURSIVE trimStart(_)
trimStart(t) ==
    IF t # <<>> /\ Head(t) \in Whitespace THEN trimStart(Tail(t)) ELSE t

RECURSIVE trimEnd(_)
trimEnd(t) ==
    IF t # <<>> /\ t[Len(t)] \in Whitespace
    THEN trimEnd(SubSeq(t, 1, Len(t) - 1))
    ELSE t

trim(t) == trimEnd(trimStart(t))

substring(t, from, to) == SubSeq(t, from + 1, Min(to, Len(t)))

canonicalize(t) == substring(toLowerCase(trim(t)), 0, KeyPrefixLen)

----------------------------------------------------------------------------
(* Tree-recursive controller *)

\* The requirement texts of the controller runs: four canonical keys, one of
\* them spelled in two ways, arranged on a ring.
TextRing == << <<"a">>, <<" ", "A">>, <<"b">>, <<"c">>, <<"d">> >>
CtlTexts == {TextRing[k] : k \in 1..Len(TextRing)}
RootTexts == {TextRing[1]}

RingIndex(t) == CHOOSE k \in 1..Len(TextRing) : TextRing[k] = t

\* The lists of new demands the oracle is tried with for a requirement: none,
\* or up to MaxNewDemands consecutive texts of the ring, starting one or two
\* places after the requirement.  The ring closes, so a requirement can come
\* back as a new demand of one of its descendants.
Window(k, n) == [j \in 1..n |-> TextRing[((k + j - 2) % Len(TextRing)) + 1]]
DemandLists(demand) ==
    {<<>>} \cup {Window(RingIndex(demand) + s, n) : s \in 1..2, n \in 1..MaxNewDemands}

\* What lcaKeyGraph.invoke can resolve with: a final state whose
\* messages hold (or not) a process_selector and a workflow_restarter tool call
\* and whose demands field is a list of { content } objects.
GraphResults(demand) == [ps : BOOLEAN, wr : BOOLEAN, demands : DemandLists(demand)]

\* The content of a new demand is demand.new_demand of the oracle's tool call,
\* which nothing checks to be a string: a content that is not one (undefined)
\* is kept as a text no string is equal to.
Undefined == <<"undefined">>
IsString(t) == t # Undefined

DepthLimitReachedOffByOne(depth) == depth > MAX_RECURSION_DEPTH
DepthLimitReached(depth) == depth >= MAX_RECURSION_DEPTH

AlreadyProcessedNever(key, processed) == FALSE
AlreadyProcessed(key, processed) == key \in processed

\* line 72 left out
AddNothing(processed, key) == processed
\* processedDemands.add(demandHash)
Add(processed, key) == processed \cup {key}

NewCall(demand, depth, wave, pc, ret) ==
    [demand |-> demand, depth |-> depth, wave |-> wave,
     pc |-> pc, ret |-> ret, newDemands |-> <<>>, i |-> 0,
     processSelectorMessage |-> FALSE]

\* A call is named by its place in the call tree: <<>> is the root call, and
\* Append(p, j) the call made for the j-th new demand of call p.
Root == <<>>
Parent(id) == SubSeq(id, 1, Len(id) - 1)

\* processDemandsRecursively up to its first await (or its early return).
\* st = [calls, processed]: the calls made so far and processedDemands.
\* demand.trim() of line 65 is outside the try block: for a demand that is not a
\* string it throws, and the promise of the call is rejected (ret "threw").
EnterCall(st, id, demand, depth, wave) ==
    LET demandHash == canonicalize(demand) IN
    IF DepthLimitReached(depth)
    THEN [st EXCEPT !.calls = @ @@ (id :> NewCall(demand, depth, wave, "returned", "depth"))]
    ELSE IF ~IsString(demand)
    THEN [st EXCEPT !.calls = @ @@ (id :> NewCall(demand, depth, wave, "returned", "threw"))]
    ELSE IF AlreadyProcessed(demandHash, st.processed)
    THEN [st EXCEPT !.calls = @ @@ (id :> NewCall(demand, depth, wave, "returned", "duplicate"))]
    ELSE [calls |-> st.calls @@ (id :> NewCall(demand, depth, wave, "invoke", "none")),
          processed |-> Add(st.processed, demandHash)]

BatchEndUnlimited(list, i) == Len(list)
BatchEnd(list, i) == Min(i + CONCURRENCY_LIMIT, Len(list))

\* batch.map(demandObj => processDemandsRecursively(demandObj.content, ...)) over
\* batch = demands.slice(i, i + CONCURRENCY_LIMIT): the calls of one batch start
\* one after the other, each running to its first await.  j counts from 1.
RECURSIVE MapBatch(_, _, _, _, _, _)
MapBatch(st, parent, list, j, last, wave) ==
    IF j > last THEN st
    ELSE MapBatch(EnterCall(st, Append(parent, j), list[j], Len(parent) + 1, wave),
                  parent, list, j + 1, last, wave)

\* One iteration of the loop of processInBatches for caller id at index i,
\* the calls made so far being those of made.
LaunchBatchAfter(made, id, list, i) ==
    LET st == MapBatch([calls |-> made, processed |-> processedDemands],
                       id, list, i + 1, BatchEnd(list, i), i)
    IN  /\ calls' = [st.calls EXCEPT ![id].pc = "batch", ![id].i = i,
                                     ![id].newDemands = list]
        /\ processedDemands' = st.processed

LaunchBatch(id, list, i) == LaunchBatchAfter(calls, id, list, i)

Children(id, wave) ==
    {c \in DOMAIN calls : c # Root /\ Parent(c) = id /\ calls[c].wave = wave}

BatchSettledByAny(id) ==
    \E c \in Children(id, calls[id].i) : calls[c].pc = "returned"
BatchSettledOnSuccess(id) ==
    \A c \in Children(id, calls[id].i) : calls[c].pc = "returned" /\ calls[c].ret = "ok"
BatchSettled(id) ==
    \A c \in Children(id, calls[id].i) : calls[c].pc = "returned"

\* Promise.all rejects as soon as one promise of the batch is rejected.
BatchRejects(id) ==
    \E c \in Children(id, calls[id].i) : calls[c].ret = "threw"

\* an array that keeps its last entry only
PushOver(array, id) == SetToBag({id})
\* array.push(message): the arrays are kept as bags of the ids of the pushing calls.
Push(array, id) == array (+) SetToBag({id})

\* const processSelectorMessage = result.messages.find(...), as the call keeps
\* it: whether a message was found.
WithSelectorMessage(made, id, found) == [made EXCEPT ![id].processSelectorMessage = found]

\* analyzeCompleteLifeCycle, lines 211-229: reset, then the root call.
Analyze ==
    /\ entry = "analyzeCompleteLifeCycle"
    /\ alcPc = "idle"
    /\ LET st == EnterCall([calls |-> <<>>, processed |-> {}], Root, initialDemand, 0, 0)
       IN  /\ calls' = st.calls
           /\ processedDemands' = st.processed
    /\ processSelectors' = EmptyBag
    /\ workflowRestarters' = EmptyBag
    /\ errors' = <<>>
    /\ alcPc' = "awaiting"
    /\ UNCHANGED <<entry, initialDemand>>

\* lcaKeyGraph.invoke of call id throws: the catch block, lines 131-135.
InvokeThrows(id) ==
    /\ entry = "analyzeCompleteLifeCycle"
    /\ calls[id].pc = "invoke"
    /\ calls' = [calls EXCEPT ![id].pc = "returned", ![id].ret = "caught"]
    /\ UNCHANGED <<entry, initialDemand, alcPc, processedDemands, processSelectors,
                   workflowRestarters, errors>>

\* lcaKeyGraph.invoke of call id resolves with result r: lines 80-130 up to the
\* await of the first batch, or to the return.
InvokeReturns(id, r) ==
    /\ entry = "analyzeCompleteLifeCycle"
    /\ calls[id].pc = "invoke"
    /\ processSelectors' = IF r.ps THEN Push(processSelectors, id) ELSE processSelectors
    /\ workflowRestarters' = IF r.wr THEN Push(workflowRestarters, id) ELSE workflowRestarters
    /\ IF r.wr /\ Len(r.demands) > 0
       THEN LaunchBatchAfter(WithSelectorMessage(calls, id, r.ps), id, r.demands, 0)
       ELSE /\ calls' = [WithSelectorMessage(calls, id, r.ps) EXCEPT ![id].pc = "returned",
                                                        ![id].ret = "ok"]
            /\ UNCHANGED processedDemands
    /\ UNCHANGED <<entry, initialDemand, alcPc, errors>>

\* Promise.all of the current batch of call id resolves: the next iteration of
\* the loop of processInBatches, or the return of line 130.
BatchResolved(id) ==
    /\ entry = "analyzeCompleteLifeCycle"
    /\ calls[id].pc = "batch"
    /\ ~BatchRejects(id)
    /\ BatchSettled(id)
    /\ LET next == calls[id].i + CONCURRENCY_LIMIT IN
       IF next < Len(calls[id].newDemands)
       THEN LaunchBatch(id, calls[id].newDemands, next)
       ELSE /\ calls' = [calls EXCEPT ![id].pc = "returned", ![id].ret = "ok"]
            /\ UNCHANGED processedDemands
    /\ UNCHANGED <<entry, initialDemand, alcPc, processSelectors, workflowRestarters, errors>>

\* Promise.all of the current batch of call id rejects: the await of line 124
\* throws into the catch block of lines 131-135; the calls of the batch that
\* are in flight go on.
BatchRejected(id) ==
    /\ entry = "analyzeCompleteLifeCycle"
    /\ calls[id].pc = "batch"
    /\ BatchRejects(id)
    /\ calls' = [calls EXCEPT ![id].pc = "returned", ![id].ret = "caught"]
    /\ UNCHANGED <<entry, initialDemand, alcPc, processedDemands, processSelectors,
                   workflowRestarters, errors>>

HasError(c) == c.ret \in {"depth", "caught"}

\* analyzeCompleteLifeCycle, lines 229-256: the root call has returned.
AnalyzeReturns ==
    /\ entry = "analyzeCompleteLifeCycle"
    /\ alcPc = "awaiting"
    /\ calls[Root].pc = "returned"
    /\ errors' = IF HasError(calls[Root]) THEN Append(errors, Root) ELSE errors
    /\ alcPc' = "done"
    /\ UNCHANGED <<entry, initialDemand, processedDemands, calls, processSelectors,
                   workflowRestarters>>

CtlInit ==
    /\ initialDemand \in RootTexts
    /\ alcPc = "idle"
    /\ processedDemands = {}
    /\ calls = <<>>
    /\ processSelectors = EmptyBag
    /\ workflowRestarters = EmptyBag
    /\ errors = <<>>

CtlNext ==
    \/ Analyze
    \/ \E id \in DOMAIN calls : InvokeThrows(id)
    \/ \E id \in DOMAIN calls :
         \E r \in GraphResults(calls[id].demand) : InvokeReturns(id, r)
    \/ \E id \in DOMAIN calls : BatchResolved(id)
    \/ AnalyzeReturns

\* The oracle of the bounded-branching scenario: every run succeeds and yields
\* exactly two new demands, either two texts not seen before or one new text
\* spelled in two ways.
TwoNewDemands(demand) ==
    { <<Append(demand, "0"), Append(demand, "1")>>,
      <<Append(demand, "0"), <<" ">> \o Append(demand, "B")>>,
      <<Append(demand, "b"), <<" ">> \o Append(demand, "B")>> }

GraphResultsTwo(demand) == [ps : {TRUE}, wr : {TRUE}, demands : TwoNewDemands(demand)]

CtlNextTwo ==
    \/ Analyze
    \/ \E id \in DOMAIN calls :
         \E r \in GraphResultsTwo(calls[id].demand) : InvokeReturns(id, r)
    \/ \E id \in DOMAIN calls : BatchResolved(id)
    \/ AnalyzeReturns

----------------------------------------------------------------------------
(* Queue-flattened workflow graph *)

\* The messages channel only grows (reducer x.concat(y)), and the code reads it
\* in three ways: messages.filter(has tool call t).length, messages.find(has
\* tool call t) and messages[messages.length - 1].  It is kept as what these
\* reads return: per tool name the number of messages carrying it and the args
\* of the first of them, and the content of the last message.  The args of the
\* latest boundary_judger message are kept as well: no stage reads them.
QTools ==
    {"demand_extractor", "title_matcher", "technical_grader", "spatial_grader",
     "time_grader", "technical_summary", "spatial_summary", "time_summary",
     "final_summary", "heterogeneity_evaluator", "process_selector",
     "boundary_judger", "industry_analyst", "flow_analyst", "flow_judger",
     "flow_filter", "workflow_restarter"}

\* The args of a tool call, reduced to the fields the routers read.  The lists
\* combined_flows and non_elementary_flows are kept by their length.
NoArgs ==
    [whether_reach_cradle |-> "", empty_result |-> FALSE, combined_flows |-> 0,
     all_elementary_flows |-> FALSE, non_elementary_flows |-> 0]

\* The content of an oracle response that carries a tool call.
ToolCallContent == <<>>

HumanMessage(text) ==
    [n |-> [t \in QTools |-> 0], first |-> [t \in QTools |-> NoArgs],
     judged |-> NoArgs, lastContent |-> text]

\* messages.concat([response]) for a response carrying one call of tool t.
Concat(msgs, t, args) ==
    [n |-> [msgs.n EXCEPT ![t] = @ + 1],
     first |-> IF msgs.n[t] = 0 THEN [msgs.first EXCEPT ![t] = args] ELSE msgs.first,
     judged |-> IF t = "boundary_judger" THEN args ELSE msgs.judged,
     lastContent |-> ToolCallContent]

RECURSIVE ConcatTimes(_, _, _, _)
ConcatTimes(msgs, t, args, k) ==
    IF k = 0 THEN msgs ELSE ConcatTimes(Concat(msgs, t, args), t, args, k - 1)

\* messages.filter(msg => msg.tool_calls?.some(tool => tool.name === t)).length
CountOf(msgs, t) == msgs.n[t]
\* messages.find(...) found a message
Found(msgs, t) == msgs.n[t] > 0
\* the args of the first tool call of the message found
FirstArgs(msgs, t) == msgs.first[t]
\* the message messages.find(...) returns, by its place among the messages that
\* carry tool call t: find returns the first match, 0 stands for undefined
FoundPlace(msgs, t) == IF msgs.n[t] > 0 THEN 1 ELSE 0
\* the args of the tool call of the latest boundary_judger message
LatestJudgment(msgs) == msgs.judged

\* The requirement texts of the queue runs: the run input, and the new demands
\* of workflow_restarter, which spell one canonical key in two ways in turn.
QueueInput == <<"a">>
QueueTextAt(j) == IF j % 2 = 1 THEN <<"b">> ELSE <<" ", "B">>

\* response.tool_calls[0].args.new_demands, by the new_demand texts: the oracle
\* yields from none to MaxQueued new demands.
NewDemandLists == {[j \in 1..k |-> QueueTextAt(j)] : k \in 0..MaxQueued}

\* whether_reach_cradle: z.enum(["Yes", "No"])
BoundaryAnswers == {"Yes", "No"}

shouldProcessNextDemand(hpd, dem, idx) ==
    IF hpd /\ Len(dem) > 0
    THEN IF idx < Len(dem) THEN "process_next_demand" ELSE "normal_flow"
    ELSE "normal_flow"

IterationLimitNever(iterationCount) == FALSE
IterationLimitExceeded(iterationCount) == iterationCount > 10

shouldContinueBoundaryAnalysis(msgs) ==
    IF IterationLimitExceeded(CountOf(msgs, "demand_extractor")) THEN "end_workflow"
    ELSE IF Found(msgs, "boundary_judger")
    THEN IF FirstArgs(msgs, "boundary_judger").whether_reach_cradle = "Yes"
         THEN "end_workflow"
         ELSE "continue_analysis"
    ELSE "end_workflow"

shouldContinueFlowJudger(msgs) ==
    IF CountOf(msgs, "flow_judger") > 10 THEN "end_workflow"
    ELSE IF Found(msgs, "flow_judger")
    THEN IF FirstArgs(msgs, "flow_judger").empty_result = TRUE
            \/ FirstArgs(msgs, "flow_judger").combined_flows = 0
         THEN "end_workflow"
         ELSE "continue_workflow"
    ELSE "end_workflow"

shouldContinueFlowAnalysis(msgs) ==
    IF CountOf(msgs, "flow_filter") > 10 THEN "end_workflow"
    ELSE IF Found(msgs, "flow_filter")
    THEN IF FirstArgs(msgs, "flow_filter").all_elementary_flows = TRUE
            \/ FirstArgs(msgs, "flow_filter").non_elementary_flows = 0
         THEN "end_workflow"
         ELSE "continue_workflow"
    ELSE "end_workflow"

QueueUnchanged == UNCHANGED <<iteration_count, demands, current_demand_index,
                              has_parallel_demands, extracted, extracting>>

\* line 129, with the index before its increment
MorePendingBeforeIncrement(idx, dem) == idx < Len(dem)

\* line 129: has_parallel_demands as demand_extractor returns it
MorePending(idx, dem) == idx + 1 < Len(dem)

\* The conditional edge shouldProcessNextDemand after demand_extractor.
AfterExtraction(flag, dem, idx) ==
    IF shouldProcessNextDemand(flag, dem, idx) = "process_next_demand"
    THEN "demand_extractor"
    ELSE "title_matcher"

\* demand_extractor up to its await, lines 81-122 and 142-175: the query is
\* sent to the oracle.  With every queued item processed it returns at once
\* and resets the queue (lines 130-138), and the conditional edge follows.
demand_extractor ==
    /\ entry = "graph"
    /\ node = "demand_extractor"
    /\ ~extracting
    /\ CountOf(messages, "demand_extractor") < MaxExtractions
    /\ IF has_parallel_demands /\ Len(demands) > 0
       THEN IF current_demand_index < Len(demands)
            THEN LET query == demands[current_demand_index + 1] IN
                 /\ extracted' = extracted (+) SetToBag({query})
                 /\ extracting' = TRUE
                 /\ UNCHANGED <<node, messages, demands, current_demand_index,
                                has_parallel_demands>>
            ELSE /\ messages' = messages
                 /\ has_parallel_demands' = FALSE
                 /\ demands' = <<>>
                 /\ current_demand_index' = 0
                 /\ node' = AfterExtraction(has_parallel_demands', demands',
                                            current_demand_index')
                 /\ UNCHANGED <<extracted, extracting>>
       ELSE LET query == messages.lastContent IN
            /\ extracted' = extracted (+) SetToBag({query})
            /\ extracting' = TRUE
            /\ UNCHANGED <<node, messages, demands, current_demand_index,
                           has_parallel_demands>>
    /\ UNCHANGED <<entry, iteration_count>>

\* The oracle answers the query: demand_extractor returns its response, and
\* for a queued item the index after it and whether more are pending (lines
\* 122-129 and 175-179); the conditional edge follows.
demand_extractor_returns ==
    /\ entry = "graph"
    /\ node = "demand_extractor"
    /\ extracting
    /\ messages' = Concat(messages, "demand_extractor", NoArgs)
    /\ IF has_parallel_demands /\ Len(demands) > 0
       THEN /\ current_demand_index' = current_demand_index + 1
            /\ has_parallel_demands' = MorePending(current_demand_index, demands)
            /\ UNCHANGED demands
       ELSE UNCHANGED <<demands, current_demand_index, has_parallel_demands>>
    /\ node' = AfterExtraction(has_parallel_demands', demands', current_demand_index')
    /\ extracting' = FALSE
    /\ UNCHANGED <<entry, iteration_count, extracted>>

\* A stage that only appends its response: k messages carrying tool call t.
Respond(at, t, k, to) ==
    /\ entry = "graph"
    /\ node = at
    /\ messages' = ConcatTimes(messages, t, NoArgs, k)
    /\ node' = to
    /\ QueueUnchanged
    /\ UNCHANGED entry

title_matcher == Respond("title_matcher", "title_matcher", 1, "graders")

\* technical_grader, spatial_grader and time_grader run in one step of the
\* graph; each returns three responses.
graders ==
    /\ entry = "graph"
    /\ node = "graders"
    /\ messages' = ConcatTimes(ConcatTimes(ConcatTimes(messages,
                       "technical_grader", NoArgs, 3),
                       "spatial_grader", NoArgs, 3),
                       "time_grader", NoArgs, 3)
    /\ node' = "summaries"
    /\ QueueUnchanged
    /\ UNCHANGED entry

\* summarize_technical_grades, summarize_spatial_grades, summarize_time_grades
summaries ==
    /\ entry = "graph"
    /\ node = "summaries"
    /\ messages' = Concat(Concat(Concat(messages,
                       "technical_summary", NoArgs),
                       "spatial_summary", NoArgs),
                       "time_summary", NoArgs)
    /\ node' = "final_summary"
    /\ QueueUnchanged
    /\ UNCHANGED entry

final_summarizer == Respond("final_summary", "final_summary", 1, "heterogeneity_evaluator")

heterogeneity_evaluator ==
    Respond("heterogeneity_evaluator", "heterogeneity_evaluator", 1, "process_selector")

process_selector == Respond("process_selector", "process_selector", 1, "boundary_judger")

\* boundary_judger, followed by the conditional edge shouldContinueBoundaryAnalysis.
boundary_judger ==
    /\ entry = "graph"
    /\ node = "boundary_judger"
    /\ \E answer \in BoundaryAnswers :
         messages' = Concat(messages, "boundary_judger",
                            [NoArgs EXCEPT !.whether_reach_cradle = answer])
    /\ node' = IF shouldContinueBoundaryAnalysis(messages') = "end_workflow"
               THEN "__end__"
               ELSE "industry_analyst"
    /\ QueueUnchanged
    /\ UNCHANGED entry

industry_analyst == Respond("industry_analyst", "industry_analyst", 1, "flow_analyst")

flow_analyst == Respond("flow_analyst", "flow_analyst", 1, "flow_judger")

\* flow_judger, followed by the conditional edge shouldContinueFlowJudger.
flow_judger ==
    /\ entry = "graph"
    /\ node = "flow_judger"
    /\ \E empty \in BOOLEAN, size \in 0..1 :
         messages' = Concat(messages, "flow_judger",
                            [NoArgs EXCEPT !.empty_result = empty, !.combined_flows = size])
    /\ node' = IF shouldContinueFlowJudger(messages') = "end_workflow"
               THEN "__end__"
               ELSE "flow_filter"
    /\ QueueUnchanged
    /\ UNCHANGED entry

\* flow_filter, followed by the conditional edge shouldContinueFlowAnalysis.
flow_filter ==
    /\ entry = "graph"
    /\ node = "flow_filter"
    /\ \E all \in BOOLEAN, size \in 0..1 :
         messages' = Concat(messages, "flow_filter",
                            [NoArgs EXCEPT !.all_elementary_flows = all,
                                           !.non_elementary_flows = size])
    /\ node' = IF shouldContinueFlowAnalysis(messages') = "end_workflow"
               THEN "__end__"
               ELSE "workflow_restarter"
    /\ QueueUnchanged
    /\ UNCHANGED entry

\* workflow_restarter, followed by the edge to demand_extractor.
workflow_restarter ==
    /\ entry = "graph"
    /\ node = "workflow_restarter"
    /\ \E newDemands \in NewDemandLists :
         /\ messages' = Concat(messages, "workflow_restarter", NoArgs)
         /\ IF Len(newDemands) = 0
            THEN /\ has_parallel_demands' = FALSE
                 /\ demands' = <<>>
            ELSE /\ has_parallel_demands' = TRUE
                 /\ demands' = newDemands
         /\ current_demand_index' = 0
         /\ iteration_count' = iteration_count + 1
    /\ node' = "demand_extractor"
    /\ UNCHANGED <<entry, extracted, extracting>>

\* graph.invoke({ messages: [new HumanMessage(QueueInput)] })
QueueInit ==
    /\ node = "demand_extractor"
    /\ messages = HumanMessage(QueueInput)
    /\ iteration_count = 0
    /\ demands = <<>>
    /\ current_demand_index = 0
    /\ has_parallel_demands = FALSE
    /\ extracted = EmptyBag
    /\ extracting = FALSE

QueueNext ==
    \/ demand_extractor
    \/ demand_extractor_returns
    \/ title_matcher
    \/ graders
    \/ summaries
    \/ final_summarizer
    \/ heterogeneity_evaluator
    \/ process_selector
    \/ boundary_judger
    \/ industry_analyst
    \/ flow_analyst
    \/ flow_judger
    \/ flow_filter
    \/ workflow_restarter

----------------------------------------------------------------------------
(* The canonical key applied to its own result *)

RECURSIVE SeqsUpTo(_, _)
SeqsUpTo(S, k) ==
    IF k = 0 THEN {<<>>}
    ELSE LET shorter == SeqsUpTo(S, k - 1)
         IN  shorter \cup {Append(q, x) : q \in shorter, x \in S}

Pad(k) == [j \in 1..k |-> "a"]

\* The requirement texts the key function is tried on: up to MaxAffix
\* characters, then nothing or a filling that ends near the 100th character,
\* then up to MaxAffix characters.
Affixes == SeqsUpTo({" ", "A", "b"}, MaxAffix)
PadLengths == {0} \cup ((KeyPrefixLen - MaxAffix - 1)..KeyPrefixLen)
KeyTexts == {h \o Pad(k) \o t : h \in Affixes, t \in Affixes, k \in PadLengths}

KeyInit ==
    /\ keyPc = "text"
    /\ keyInput \in KeyTexts
    /\ keyOnce = <<>>
    /\ keyTwice = <<>>

KeyIdle ==
    /\ keyPc = "text"
    /\ keyInput = <<>>
    /\ keyOnce = <<>>
    /\ keyTwice = <<>>

\* const demandHash = demand.trim().toLowerCase().substring(0, 100)
Canonicalize ==
    /\ entry = "canonicalize"
    /\ keyPc = "text"
    /\ keyOnce' = canonicalize(keyInput)
    /\ keyPc' = "key"
    /\ UNCHANGED <<entry, keyInput, keyTwice>>

\* the same, of a requirement whose text is a canonical key
CanonicalizeKey ==
    /\ entry = "canonicalize"
    /\ keyPc = "key"
    /\ keyTwice' = canonicalize(keyOnce)
    /\ keyPc' = "key of key"
    /\ UNCHANGED <<entry, keyInput, keyOnce>>

KeyNext == Canonicalize \/ CanonicalizeKey

----------------------------------------------------------------------------
(* The controller with more new demands than one batch holds *)

WaveText(j) == [k \in 1..j |-> "x"]
StringLists == {[j \in 1..k |-> WaveText(j)] : k \in 0..MaxWaveDemands}
\* the same lists, and those with one content that is not a string, first or last
WaveLists ==
    StringLists \cup UNION {{[list EXCEPT ![p] = Undefined] : p \in {1, Len(list)}} :
                               list \in StringLists \ {<<>>}}

\* The oracle of the wave scenario: the run of the top-level requirement yields
\* up to MaxWaveDemands new demands with distinct keys; the run of a new demand
\* yields none.
GraphResultsWave(demand) ==
    IF demand \in RootTexts
    THEN [ps : {TRUE}, wr : {TRUE}, demands : WaveLists]
    ELSE [ps : {TRUE}, wr : BOOLEAN, demands : {<<>>}]

CtlNextWave ==
    \/ Analyze
    \/ \E id \in DOMAIN calls : InvokeThrows(id)
    \/ \E id \in DOMAIN calls :
         \E r \in GraphResultsWave(calls[id].demand) : InvokeReturns(id, r)
    \/ \E id \in DOMAIN calls : BatchResolved(id)
    \/ \E id \in DOMAIN calls : BatchRejected(id)
    \/ AnalyzeReturns

----------------------------------------------------------------------------
(* technical_grader: the candidates are graded in batches *)

\* What one batchPromise resolves with: a response with a grade, a response
\* without a technical_grader tool call, or the oracle call failed.
GradeOutcomes == {"graded", "no grade", "failed"}

\* processInfo.slice(i, i + batchSize), as the places i+1 .. of processInfo
CurrentBatch(i) == (i + 1)..Min(i + batchSize, Len(processInfo))

\* currentBatch.map(async (process, index) => ...): every callback runs to its await.
StartBatch(i) ==
    /\ grading' = grading @@ [k \in CurrentBatch(i) |-> [batch |-> i, outcome |-> "pending"]]
    /\ batchStart' = i
    /\ graderPc' = "awaiting"

GraderReturn ==
    /\ graderPc' = "returned"
    /\ UNCHANGED <<batchStart, grading>>

GraderInit ==
    /\ graderPc = "called"
    /\ processInfo \in {[k \in 1..n |-> k] : n \in 0..MaxCandidates}
    /\ batchStart = 0
    /\ grading = <<>>
    /\ allResponses = <<>>
    /\ allGradedProcesses = <<>>

GraderIdle ==
    /\ graderPc = "called"
    /\ processInfo = <<>>
    /\ batchStart = 0
    /\ grading = <<>>
    /\ allResponses = <<>>
    /\ allGradedProcesses = <<>>

\* technical_grader up to the first await Promise.all, lines 254-387
GraderStart ==
    /\ entry = "technical_grader"
    /\ graderPc = "called"
    /\ IF 0 < Len(processInfo) THEN StartBatch(0) ELSE GraderReturn
    /\ UNCHANGED <<entry, processInfo, allResponses, allGradedProcesses>>

\* the oracle answers the call for candidate k: lines 363-383
GradeSettles(k, outcome) ==
    /\ entry = "technical_grader"
    /\ k \in DOMAIN grading
    /\ grading[k].outcome = "pending"
    /\ grading' = [grading EXCEPT ![k].outcome = outcome]
    /\ UNCHANGED <<entry, graderPc, processInfo, batchStart, allResponses,
                   allGradedProcesses>>

GraderBatchSettled ==
    \A k \in CurrentBatch(batchStart) : grading[k].outcome # "pending"

RECURSIVE Collect(_, _, _, _)
Collect(list, k, last, wanted) ==
    IF k > last THEN list
    ELSE Collect(IF grading[k].outcome \in wanted THEN Append(list, processInfo[k]) ELSE list,
                 k + 1, last, wanted)

\* Promise.all of the batch resolves: lines 387-394, then the next batch or the return
GraderBatchResolved ==
    /\ entry = "technical_grader"
    /\ graderPc = "awaiting"
    /\ GraderBatchSettled
    /\ LET last == Min(batchStart + batchSize, Len(processInfo)) IN
       /\ allResponses' = Collect(allResponses, batchStart + 1, last, {"graded", "no grade"})
       /\ allGradedProcesses' = Collect(allGradedProcesses, batchStart + 1, last, {"graded"})
    /\ IF batchStart + batchSize < Len(processInfo)
       THEN StartBatch(batchStart + batchSize)
       ELSE GraderReturn
    /\ UNCHANGED <<entry, processInfo>>

GraderNext ==
    \/ GraderStart
    \/ \E k \in DOMAIN grading, outcome \in GradeOutcomes : GradeSettles(k, outcome)
    \/ GraderBatchResolved

----------------------------------------------------------------------------
(* process_selector of lcaKeyAgent.ts *)

Candidates == {"A", "B"}
\* a process_UUID that no candidate has
Outsider == "Z"
\* response.tool_calls?.[0]?.args?.process_UUID || ""
NoSelection == ""

\* The args of a final_summary message, by the fields the selection rules
\* name: the three representativeness grades and flow_count.
ScoreSheets ==
    [technical : 1..MaxGrade, spatial : 1..MaxGrade, temporal : 1..MaxGrade,
     flowCount : 1..MaxFlowCount]

ExamplePool ==
    [x \in Candidates |->
        IF x = "A"
        THEN [technical |-> 1, spatial |-> 2, temporal |-> 3, flowCount |-> 5]
        ELSE [technical |-> 1, spatial |-> 1, temporal |-> 4, flowCount |-> 2]]

\* allProcesses: the final summaries of none, some or all of the candidates.
Pools == UNION {[S -> ScoreSheets] : S \in SUBSET Candidates} \cup {ExamplePool}

Heterogeneities == {"RESULT_A", "RESULT_B"}

\* What the oracle can answer: the process_UUID of a candidate, a process_UUID
\* of no candidate, or a response without a tool call.  The schema of the tool
\* asks for a string and nothing more.
SelectorAnswers == Candidates \cup {Outsider, NoSelection}

SelInit ==
    /\ selPc = "called"
    /\ allProcesses \in Pools
    /\ heterogeneity \in Heterogeneities
    /\ selectedProcessUUID = NoSelection

SelIdle ==
    /\ selPc = "called"
    /\ allProcesses = <<>>
    /\ heterogeneity = "RESULT_B"
    /\ selectedProcessUUID = NoSelection

\* process_selector, lines 1146-1232: the pool and the heterogeneity are sent to
\* the oracle with the selection rules, and the answer is returned as it is.
SelectorReturns ==
    /\ entry = "process_selector"
    /\ selPc = "called"
    /\ \E answer \in SelectorAnswers : selectedProcessUUID' = answer
    /\ selPc' = "returned"
    /\ UNCHANGED <<entry, allProcesses, heterogeneity>>

\* chain.invoke of line 1214 throws: so does process_selector.
SelectorThrows ==
    /\ entry = "process_selector"
    /\ selPc = "called"
    /\ selPc' = "threw"
    /\ UNCHANGED <<entry, allProcesses, heterogeneity, selectedProcessUUID>>

SelNext == SelectorReturns \/ SelectorThrows

\* The selection rules of the request, lines 1173-1187: by criterion, the value
\* of which the lowest is asked for (flow_count: the highest).
Value(sheet, criterion) ==
    CASE criterion = "technical" -> sheet.technical
      [] criterion = "spatial" -> sheet.spatial
      [] criterion = "temporal" -> sheet.temporal
      [] criterion = "flowCount" -> 0 - sheet.flowCount

\* the candidates of S tied for the best value on the criterion
Best(pool, S, criterion) ==
    {x \in S : \A y \in S : Value(pool[x], criterion) <= Value(pool[y], criterion)}

RECURSIVE Tournament(_, _, _)
Tournament(pool, S, order) ==
    IF order = <<>> THEN S
    ELSE Tournament(pool, Best(pool, S, Head(order)), Tail(order))

OrderA == <<"technical", "temporal", "spatial", "flowCount">>
OrderB == <<"technical", "spatial", "temporal", "flowCount">>

----------------------------------------------------------------------------
(* summarize_technical_grades, for one process *)

\* processGrades[processUUID]: from one to MaxSamples technical grades.
RECURSIVE SamplesUpTo(_)
SamplesUpTo(k) ==
    IF k = 0 THEN {<<>>}
    ELSE LET shorter == SamplesUpTo(k - 1)
         IN  shorter \cup {Append(q, v) : q \in shorter, v \in 1..MaxGrade}

SampleLists == SamplesUpTo(MaxSamples) \ {<<>>}

NoSummary == 0

SumInit ==
    /\ sumPc = "called"
    /\ grades \in SampleLists
    /\ summary = NoSummary
    /\ summaryAgain = NoSummary

SumIdle ==
    /\ sumPc = "called"
    /\ grades = <<>>
    /\ summary = NoSummary
    /\ summaryAgain = NoSummary

\* lines 779-785: the grades are sent to the oracle, whose
\* final_technical_representativeness is the summary.
SummaryReturns ==
    /\ entry = "summarize_technical_grades"
    /\ sumPc = "called"
    /\ \E final \in 1..MaxGrade : summary' = final
    /\ sumPc' = "returned"
    /\ UNCHANGED <<entry, grades, summaryAgain>>

\* lines 786-788: the oracle call failed, and the process has no summary.
SummaryFails ==
    /\ entry = "summarize_technical_grades"
    /\ sumPc = "called"
    /\ sumPc' = "returned"
    /\ UNCHANGED <<entry, grades, summary, summaryAgain>>

\* The stage executes once more on the same messages: the same grades are sent
\* to the oracle again, lines 779-785.
SummaryAgainReturns ==
    /\ entry = "summarize_technical_grades"
    /\ sumPc = "returned"
    /\ \E final \in 1..MaxGrade : summaryAgain' = final
    /\ sumPc' = "returned twice"
    /\ UNCHANGED <<entry, grades, summary>>

\* lines 786-788, in the second execution
SummaryAgainFails ==
    /\ entry = "summarize_technical_grades"
    /\ sumPc = "returned"
    /\ sumPc' = "returned twice"
    /\ UNCHANGED <<entry, grades, summary, summaryAgain>>

SumNext ==
    \/ SummaryReturns
    \/ SummaryFails
    \/ SummaryAgainReturns
    \/ SummaryAgainFails

----------------------------------------------------------------------------
(* flow_judger of lcaKeyAgent.ts *)

FlowIds == {"flowX", "flowY"}
\* industry_relevance: z.enum(["high", "medium", "low"])
Relevances == {"high", "medium", "low"}

\* An entry of a flow list, by flow_UUID and industry_relevance.
FlowEntries == FlowIds \X Relevances

\* industry_specific_flows of one flow_analyst response: at most one entry for
\* a flow.
AnalystOutputs ==
    {S \in SUBSET FlowEntries : \A e \in S, f \in S : e[1] = f[1] => e = f}

RECURSIVE OutputsUpTo(_)
OutputsUpTo(k) ==
    IF k = 0 THEN {<<>>}
    ELSE LET shorter == OutputsUpTo(k - 1)
         IN  shorter \cup {Append(q, o) : q \in shorter, o \in AnalystOutputs}

\* flowAnalystResults: the flow_analyst messages found, oldest first.
AnalystResults == OutputsUpTo(MaxAnalyses)

\* What the oracle can answer as combined_flows: any array of entries, here of
\* at most MaxCombined different ones; the schema does not ask for one entry
\* per flow.
FlowLists == {S \in SUBSET FlowEntries : Cardinality(S) <= MaxCombined}

\* lines 1442-1444: output1, output2 and output3 of the request are the first
\* three flow_analyst responses, an empty list standing for a missing one.
JudgerOutputs(results) ==
    [k \in 1..3 |-> IF Len(results) >= k THEN results[k] ELSE {}]

JudgeInit ==
    /\ judgePc = "called"
    /\ flowAnalystResults \in AnalystResults
    /\ combinedFlows = {}
    /\ resultsAgain = <<>>
    /\ combinedAgain = {}

JudgeIdle ==
    /\ judgePc = "called"
    /\ flowAnalystResults = <<>>
    /\ combinedFlows = {}
    /\ resultsAgain = <<>>
    /\ combinedAgain = {}

\* lines 1446-1454: the three outputs are sent to the oracle with the merge
\* rules, and the response is returned as it is.
FlowJudgerReturns ==
    /\ entry = "flow_judger"
    /\ judgePc = "called"
    /\ \E answer \in FlowLists : combinedFlows' = answer
    /\ judgePc' = "returned"
    /\ UNCHANGED <<entry, flowAnalystResults, resultsAgain, combinedAgain>>

\* chain.invoke of line 1446 throws: so does flow_judger.
FlowJudgerThrows ==
    /\ entry = "flow_judger"
    /\ judgePc = "called"
    /\ judgePc' = "threw"
    /\ UNCHANGED <<entry, flowAnalystResults, combinedFlows, resultsAgain, combinedAgain>>

\* the flow_analyst messages in another order
Reorderings(results) ==
    {[k \in DOMAIN results |-> results[p[k]]] :
        p \in {q \in [DOMAIN results -> DOMAIN results] :
                  \A i, j \in DOMAIN results : q[i] = q[j] => i = j}}

\* The stage executes once more, lines 1442-1454, on the same flow_analyst
\* messages in some order, or on its own combined_flows as the only output.
FlowJudgerAgain ==
    /\ entry = "flow_judger"
    /\ judgePc = "returned"
    /\ \E again \in Reorderings(flowAnalystResults) \cup {<<combinedFlows>>} :
         resultsAgain' = again
    /\ \E answer \in FlowLists : combinedAgain' = answer
    /\ judgePc' = "returned twice"
    /\ UNCHANGED <<entry, flowAnalystResults, combinedFlows>>

JudgeNext ==
    \/ FlowJudgerReturns
    \/ FlowJudgerThrows
    \/ FlowJudgerAgain

\* The merge rules of the request, lines 1410-1412: the union of the flows, a
\* flow of several analyses keeping its highest industry_relevance.
RelevanceRank(r) ==
    CASE r = "high" -> 3
      [] r = "medium" -> 2
      [] r = "low" -> 1

Merge(outputs) ==
    LET all == UNION {outputs[k] : k \in DOMAIN outputs}
    IN  {e \in all : \A f \in all : f[1] = e[1] => RelevanceRank(f[2]) <= RelevanceRank(e[2])}

----------------------------------------------------------------------------
(* final_summarizer of lcaKeyAgent.ts *)

\* a field that was never assigned
NotSet == "undefined"

\* final_*_representativeness of a summary: z.string(), which the empty
\* string satisfies.
SummaryGrades == {"", "1"}

\* The args of a summary message, by process_UUID and the final grade.
SummaryArgs == [process_UUID : Candidates, grade : SummaryGrades]

RECURSIVE SummariesUpTo(_)
SummariesUpTo(k) ==
    IF k = 0 THEN {<<>>}
    ELSE LET shorter == SummariesUpTo(k - 1)
         IN  shorter \cup {Append(q, a) : q \in shorter, a \in SummaryArgs}

SummaryLists == SummariesUpTo(MaxSummaries)

\* JavaScript's !value, for a grade
Falsy(grade) == grade = NotSet \/ grade = ""

\* allProcesses[processUUID] as lines 1003-1007 create it
NewProcessData ==
    [technical_grade |-> NotSet, spatial_grade |-> NotSet, time_grade |-> NotSet]

\* One pass of a loop of lines 999-1047: the entry of the process_UUID is
\* created when there is none, and its grade of the axis is overwritten.
RECURSIVE AddGrades(_, _, _)
AddGrades(processes, list, axis) ==
    IF list = <<>> THEN processes
    ELSE LET data == Head(list)
             known == IF data.process_UUID \in DOMAIN processes
                      THEN processes
                      ELSE [u \in DOMAIN processes \cup {data.process_UUID} |->
                              IF u \in DOMAIN processes THEN processes[u]
                              ELSE NewProcessData]
             graded ==
                 CASE axis = "technical" ->
                        [known EXCEPT ![data.process_UUID].technical_grade = data.grade]
                   [] axis = "spatial" ->
                        [known EXCEPT ![data.process_UUID].spatial_grade = data.grade]
                   [] axis = "time" ->
                        [known EXCEPT ![data.process_UUID].time_grade = data.grade]
         IN  AddGrades(graded, Tail(list), axis)

\* line 1058, with only the technical grade looked at
MissingGradesTechnicalOnly(processData) == Falsy(processData.technical_grade)

\* line 1058: the process is skipped
MissingGrades(processData) ==
    \/ Falsy(processData.technical_grade)
    \/ Falsy(processData.spatial_grade)
    \/ Falsy(processData.time_grade)

\* lines 995-1091: the final summaries, by process_UUID, of the processes that
\* are not skipped.
FinalSummaries(technical, spatial, time) ==
    LET processes ==
            AddGrades(AddGrades(AddGrades(<<>>, technical, "technical"),
                                spatial, "spatial"),
                      time, "time")
    IN  {[process_UUID |-> u,
          technical_representativeness |-> processes[u].technical_grade,
          spatial_representativeness |-> processes[u].spatial_grade,
          time_representativeness |-> processes[u].time_grade] :
            u \in {v \in DOMAIN processes : ~MissingGrades(processes[v])}}

FinalInit ==
    /\ finalPc = "called"
    /\ technicalSummaries \in SummaryLists
    /\ spatialSummaries \in SummaryLists
    /\ timeSummaries \in SummaryLists
    /\ finalSummaries = {}

FinalIdle ==
    /\ finalPc = "called"
    /\ technicalSummaries = <<>>
    /\ spatialSummaries = <<>>
    /\ timeSummaries = <<>>
    /\ finalSummaries = {}

\* final_summarizer, lines 977-1097: no oracle is called.
FinalSummarizerReturns ==
    /\ entry = "final_summarizer"
    /\ finalPc = "called"
    /\ finalSummaries' = FinalSummaries(technicalSummaries, spatialSummaries, timeSummaries)
    /\ finalPc' = "returned"
    /\ UNCHANGED <<entry, technicalSummaries, spatialSummaries, timeSummaries>>

FinalNext == FinalSummarizerReturns

----------------------------------------------------------------------------
(* The spreadsheet and extractSheetToJson *)

\* The columns of a sheet, and the cells: a row of sheet_to_json has a key for
\* each of its cells that is not empty, and a row with no cell is left out.
SheetColumns == {"process_UUID", "flow_name"}
CellValues == {"x", "y"}
Rows == UNION {[D -> CellValues] : D \in (SUBSET SheetColumns) \ {{}}}

RECURSIVE TablesUpTo(_)
TablesUpTo(k) ==
    IF k = 0 THEN {<<>>}
    ELSE LET shorter == TablesUpTo(k - 1)
         IN  shorter \cup {Append(q, row) : q \in shorter, row \in Rows}

Tables == TablesUpTo(MaxRows)

\* The workbook has the sheet process_Al, or has no sheet.
Workbooks == UNION {[S -> Tables] : S \in SUBSET {"process_Al"}}

\* filterConditions: an object, that is a list of conditions on different
\* columns; reference is a column no sheet has.
FilterColumns == SheetColumns \cup {"reference"}
Conditions == [column : FilterColumns, value : CellValues]
FilterLists ==
    {<<>>} \cup {<<c>> : c \in Conditions}
           \cup {<<p[1], p[2]>> :
                    p \in {q \in Conditions \X Conditions : q[1].column # q[2].column}}

\* extractColumns: not given, or a list of columns, kept as a set; location is
\* a column no sheet has.
ProjectedColumns == SheetColumns \cup {"location"}
Projections ==
    {[given |-> FALSE, columns |-> {}]}
        \cup {[given |-> TRUE, columns |-> C] : C \in SUBSET ProjectedColumns}

NoError == ""
Null == "null"

\* JSON.stringify({ error: ..., data: [] }): the four kinds of message are
\* file (lines 85, 165), sheet (94), column (109) and empty (125).
ErrorResult(kind) == [error |-> kind, data |-> <<>>]

\* lines 106-112: the conditions are applied in turn, each to the rows the
\* earlier ones have left.
RECURSIVE ApplyFilters(_, _)
ApplyFilters(data, conditions) ==
    IF conditions = <<>> THEN [error |-> NoError, data |-> data]
    ELSE LET column == Head(conditions).column
             value == Head(conditions).value
         IN  IF data = <<>> \/ column \notin DOMAIN data[1]
             THEN ErrorResult("column")
             ELSE ApplyFilters(SelectSeq(data, LAMBDA row : /\ column \in DOMAIN row
                                                             /\ row[column] = value),
                               Tail(conditions))

\* lines 145-152, with a column the row lacks left out
ProjectRowOmitting(row, columns) ==
    [col \in columns \cap DOMAIN row |-> row[col]]

\* lines 145-152
ProjectRow(row, columns) ==
    [col \in columns |-> IF col \in DOMAIN row THEN row[col] ELSE Null]

\* lines 120-157
Project(data, projection) ==
    IF ~projection.given THEN [error |-> NoError, data |-> data]
    ELSE IF data = <<>> THEN ErrorResult("empty")
    ELSE [error |-> NoError,
          data |-> [k \in DOMAIN data |-> ProjectRow(data[k], projection.columns)]]

\* extractSheetToJson, lines 72-169, by the value of the JSON string returned:
\* on success the list of rows (error is NoError), else the error object.
extractSheetToJson(exists, book, name, conditions, projection) ==
    IF ~exists THEN ErrorResult("file")
    ELSE IF name \notin DOMAIN book THEN ErrorResult("sheet")
    ELSE LET filtered == ApplyFilters(book[name], conditions)
         IN  IF filtered.error # NoError THEN filtered
             ELSE Project(filtered.data, projection)

FileIdle ==
    /\ fileExists = TRUE
    /\ workbook = <<>>

SheetInit ==
    /\ fileExists \in BOOLEAN
    /\ workbook \in Workbooks
    /\ sheetPc = "called"
    /\ sheetName = "process_Al"
    /\ filterConditions \in FilterLists
    /\ extractColumns \in Projections
    /\ sheetResult = ErrorResult(NoError)

SheetIdle ==
    /\ sheetPc = "called"
    /\ sheetName = ""
    /\ filterConditions = <<>>
    /\ extractColumns = [given |-> FALSE, columns |-> {}]
    /\ sheetResult = ErrorResult(NoError)

ExtractReturns ==
    /\ entry = "extractSheetToJson"
    /\ sheetPc = "called"
    /\ sheetResult' = extractSheetToJson(fileExists, workbook, sheetName,
                                          filterConditions, extractColumns)
    /\ sheetPc' = "returned"
    /\ UNCHANGED <<entry, fileVars, sheetName, filterConditions, extractColumns>>

SheetNext == ExtractReturns

----------------------------------------------------------------------------
(* The run of lcaKeyGraph up to technical_grader, and the spreadsheet *)

\* what getSheetNames returns for a file that is not there (part_000, line 53)
FileMissingText == "file does not exist"

\* workbook.SheetNames
SheetOrder == <<"process_Al">>

\* getSheetNames, part_000 lines 47-62, and the split(',') and trim() that
\* technical_grader applies to its result: the list of the names.
getSheetNames(exists, book) ==
    IF ~exists THEN <<FileMissingText>>
    ELSE SelectSeq(SheetOrder, LAMBDA name : name \in DOMAIN book)

\* name.trim().startsWith('process_')
IsProcessSheet(name) == name \in {"process_Al", "process_none"}

\* selected_process_sheet of the oracle's title_matcher tool call: a sheet of
\* the workbook, a name no sheet has, or none.
SheetChoices == {"process_Al", "process_none", ""}

\* the columns title_matcher and technical_grader extract
ProcessProjection ==
    [given |-> TRUE,
     columns |-> {"process_UUID", "process_name", "location", "flow_count"}]

\* getSheetData, lines 29-42, as technical_grader uses it at lines 273-278: the
\* rows, and none when the result is an error object (spreading it throws, and
\* line 279 catches).
getSheetData(exists, book, name) ==
    LET result == extractSheetToJson(exists, book, name, <<>>, ProcessProjection)
    IN  IF result.error = NoError THEN result.data ELSE <<>>

\* lines 267-282: the rows of all the process sheets
RECURSIVE AllProcessRows(_, _, _)
AllProcessRows(exists, book, names) ==
    IF names = <<>> THEN <<>>
    ELSE (IF IsProcessSheet(Head(names))
          THEN getSheetData(exists, book, Head(names))
          ELSE <<>>) \o AllProcessRows(exists, book, Tail(names))

\* The stages the edges of lines 1622-1624 start together after title_matcher.
SrcGraders == {"technical_grader", "spatial_grader", "time_grader"}

GraderNotStarted == [pc |-> "idle", i |-> 0, results |-> <<>>]

SourceInit ==
    /\ fileExists \in BOOLEAN
    /\ workbook \in Workbooks
    /\ sheet_names = getSheetNames(fileExists, workbook)
    /\ srcPc = "demand_extractor"
    /\ srcAwaits = FALSE
    /\ upstream_process_info = <<>>
    /\ sourceFailed = FALSE
    /\ gradedRows = <<>>
    /\ srcGrading = [g \in SrcGraders |-> GraderNotStarted]
    /\ oracleCalls = 0

SourceIdle ==
    /\ sheet_names = <<>>
    /\ srcPc = "demand_extractor"
    /\ srcAwaits = FALSE
    /\ upstream_process_info = <<>>
    /\ sourceFailed = FALSE
    /\ gradedRows = <<>>
    /\ srcGrading = [g \in SrcGraders |-> GraderNotStarted]
    /\ oracleCalls = 0

\* demand_extractor of lcaKeyAgent.ts up to its await, lines 88-124: the
\* oracle call is issued.
SrcDemandExtractor ==
    /\ entry = "data source"
    /\ srcPc = "demand_extractor"
    /\ ~srcAwaits
    /\ oracleCalls' = oracleCalls + 1
    /\ srcAwaits' = TRUE
    /\ UNCHANGED <<entry, fileVars, sheet_names, srcPc, upstream_process_info,
                   sourceFailed, gradedRows, srcGrading>>

\* The oracle answers: demand_extractor returns, lines 124-129.
SrcDemandExtractorReturns ==
    /\ entry = "data source"
    /\ srcPc = "demand_extractor"
    /\ srcAwaits
    /\ srcPc' = "title_matcher"
    /\ srcAwaits' = FALSE
    /\ UNCHANGED <<entry, fileVars, sheet_names, upstream_process_info, sourceFailed,
                   gradedRows, srcGrading, oracleCalls>>

\* title_matcher up to its await, lines 131-172: the oracle call is issued.
SrcTitleMatcher ==
    /\ entry = "data source"
    /\ srcPc = "title_matcher"
    /\ ~srcAwaits
    /\ oracleCalls' = oracleCalls + 1
    /\ srcAwaits' = TRUE
    /\ UNCHANGED <<entry, fileVars, sheet_names, srcPc, upstream_process_info,
                   sourceFailed, gradedRows, srcGrading>>

\* The oracle answers, lines 172-252: it has selected the sheets, and the rows
\* of the process sheet selected become upstream_process_info; an error object
\* yields its data, the empty list.
SrcTitleMatcherReturns ==
    /\ entry = "data source"
    /\ srcPc = "title_matcher"
    /\ srcAwaits
    /\ \E selected_process_sheet \in SheetChoices :
         LET processResult == extractSheetToJson(fileExists, workbook,
                                  selected_process_sheet, <<>>, ProcessProjection)
         IN  /\ upstream_process_info' = processResult.data
             /\ sourceFailed' = (processResult.error # NoError)
    /\ srcPc' = "graders"
    /\ srcAwaits' = FALSE
    /\ UNCHANGED <<entry, fileVars, sheet_names, gradedRows, srcGrading, oracleCalls>>

\* The rows of a list a batch starting after row i holds.
SrcBatch(rows, i) == (i + 1)..Min(i + batchSize, Len(rows))

\* A grader up to its first await: a call of the oracle is issued for every row
\* of the first batch (lines 305-387); without a row it returns at once.
GraderStarted(rows) ==
    IF Len(rows) = 0
    THEN [pc |-> "returned", i |-> 0, results |-> <<>>]
    ELSE [pc |-> "awaiting", i |-> 0,
          results |-> [k \in 1..Len(rows) |->
                          IF k \in SrcBatch(rows, 0) THEN "pending" ELSE "unsent"]]

SrcAllReturned(started) == \A g \in SrcGraders : started[g].pc = "returned"

\* processInfo of a grader, lines 263-284: without upstream_process_info the
\* rows of all process sheets, else upstream_process_info.
ProcessInfo ==
    IF Len(upstream_process_info) = 0
    THEN AllProcessRows(fileExists, workbook, sheet_names)
    ELSE upstream_process_info

\* The step after title_matcher starts technical_grader (lines 254-387),
\* spatial_grader (416-536) and time_grader (565-678), each up to its first
\* await.  Each computes the same processInfo.
SrcGradersStart ==
    /\ entry = "data source"
    /\ srcPc = "graders"
    /\ \A g \in SrcGraders : srcGrading[g].pc = "idle"
    /\ gradedRows' = ProcessInfo
    /\ srcGrading' = [g \in SrcGraders |-> GraderStarted(gradedRows')]
    /\ oracleCalls' = oracleCalls
                        + Cardinality(SrcGraders) * Cardinality(SrcBatch(gradedRows', 0))
    /\ srcPc' = IF SrcAllReturned(srcGrading') THEN "graded" ELSE "graders"
    /\ UNCHANGED <<entry, fileVars, sheet_names, srcAwaits, upstream_process_info,
                   sourceFailed>>

\* The oracle answers the call of grader g for row k, or the call fails and
\* the catch of the row yields response null (lines 363-383).
SrcGradeSettles(g, k, outcome) ==
    /\ entry = "data source"
    /\ srcGrading[g].pc = "awaiting"
    /\ k \in DOMAIN srcGrading[g].results
    /\ srcGrading[g].results[k] = "pending"
    /\ srcGrading' = [srcGrading EXCEPT ![g].results[k] = outcome]
    /\ UNCHANGED <<entry, fileVars, sheet_names, srcPc, srcAwaits, upstream_process_info,
                   sourceFailed, gradedRows, oracleCalls>>

\* Promise.all of the batch of grader g resolves (line 387): the calls of the
\* next batch are issued, or the grader returns; the step ends with the last
\* grader.
SrcBatchResolved(g) ==
    /\ entry = "data source"
    /\ srcGrading[g].pc = "awaiting"
    /\ \A k \in SrcBatch(gradedRows, srcGrading[g].i) : srcGrading[g].results[k] # "pending"
    /\ LET next == srcGrading[g].i + batchSize IN
       IF next < Len(gradedRows)
       THEN /\ srcGrading' =
                 [srcGrading EXCEPT
                    ![g].i = next,
                    ![g].results = [k \in DOMAIN @ |->
                                      IF k \in SrcBatch(gradedRows, next) THEN "pending" ELSE @[k]]]
            /\ oracleCalls' = oracleCalls + Cardinality(SrcBatch(gradedRows, next))
       ELSE /\ srcGrading' = [srcGrading EXCEPT ![g].pc = "returned"]
            /\ UNCHANGED oracleCalls
    /\ srcPc' = IF SrcAllReturned(srcGrading') THEN "graded" ELSE "graders"
    /\ UNCHANGED <<entry, fileVars, sheet_names, srcAwaits, upstream_process_info,
                   sourceFailed, gradedRows>>

\* allResponses of grader g, the messages it returns: one for every row the
\* oracle answered.
SrcResponses(g) ==
    Cardinality({k \in DOMAIN srcGrading[g].results : srcGrading[g].results[k] = "response"})

\* The oracle call demand_extractor or title_matcher awaits fails (lines 124
\* and 172, outside any try): the stage throws, and so does the run.
SrcStageThrows ==
    /\ entry = "data source"
    /\ srcPc \in {"demand_extractor", "title_matcher"}
    /\ srcAwaits
    /\ srcPc' = "threw"
    /\ srcAwaits' = FALSE
    /\ UNCHANGED <<entry, fileVars, sheet_names, upstream_process_info, sourceFailed,
                   gradedRows, srcGrading, oracleCalls>>

SourceNext ==
    \/ SrcDemandExtractor
    \/ SrcDemandExtractorReturns
    \/ SrcTitleMatcher
    \/ SrcTitleMatcherReturns
    \/ SrcGradersStart
    \/ \E g \in SrcGraders, k \in 1..Len(gradedRows), outcome \in {"response", "null"} :
         SrcGradeSettles(g, k, outcome)
    \/ \E g \in SrcGraders : SrcBatchResolved(g)
    \/ SrcStageThrows

----------------------------------------------------------------------------
(* One run of lcaKeyGraph, the graph the tree-recursive controller invokes *)

\* The run uses the channels messages and demands.  Its edges, lines 1620-1640,
\* are all unconditional.  The engine runs the graph in steps: the stages of a
\* step are started together, each up to its first await, and execute
\* concurrently; when all of them have returned, the stages that one of them
\* has an edge to make the next step.  A stage that does not catch the failure
\* of its oracle call makes the run throw.  In such a run node only tells how
\* the run ended: it becomes __end__ when no stage is left to execute.
KeyFixed == UNCHANGED <<entry, iteration_count, current_demand_index,
                        has_parallel_demands, extracted, extracting, fileVars,
                        sheet_names, srcPc, srcAwaits, sourceFailed, gradedRows,
                        srcGrading, oracleCalls>>

\* The process sheet of the runs of the graph: up to MaxKeyRows rows.
MaxKeyRows == 2

KeyRow == [c \in {"process_UUID"} |-> "x"]

KeyWorkbooks ==
    {<<>>} \cup {[name \in {"process_Al"} |-> [k \in 1..n |-> KeyRow]] : n \in 0..MaxKeyRows}

KeySourceInit ==
    /\ fileExists \in BOOLEAN
    /\ workbook \in KeyWorkbooks
    /\ sheet_names = getSheetNames(fileExists, workbook)
    /\ srcPc = "demand_extractor"
    /\ srcAwaits = FALSE
    /\ upstream_process_info = <<>>
    /\ sourceFailed = FALSE
    /\ gradedRows = <<>>
    /\ srcGrading = [g \in SrcGraders |-> GraderNotStarted]
    /\ oracleCalls = 0

SummaryStages == {"technical_summary", "spatial_summary", "time_summary"}

GraderOf(stage) ==
    CASE stage = "technical_summary" -> "technical_grader"
      [] stage = "spatial_summary" -> "spatial_grader"
      [] stage = "time_summary" -> "time_grader"

\* The stages that await the oracle more than once, and what such a stage
\* holds while it executes: the calls it has still to issue, those it awaits
\* and the responses it has got.
KeyWorkers == SrcGraders \cup SummaryStages

NoWork == [todo |-> 0, pending |-> 0, got |-> 0]

\* A grader up to its first await, over n rows: lines 305-387.
GraderWork(n) == [todo |-> n - Min(batchSize, n), pending |-> Min(batchSize, n), got |-> 0]

\* A summary stage up to its first await, with u keys in processGrades: lines
\* 707-779.
SummaryWork(u) == [todo |-> u - Min(1, u), pending |-> Min(1, u), got |-> 0]

\* Object.keys(processGrades).length for k messages of the grader: the
\* process_UUID of a tool call is what the oracle wrote.
DistinctCounts(k) == IF k = 0 THEN {0} ELSE 1..k

\* with time_summary placed after title_matcher instead of time_grader
KeyEdgesUnbalanced ==
    {<<"__start__", "demand_extractor">>,
     <<"demand_extractor", "title_matcher">>,
     <<"title_matcher", "technical_grader">>,
     <<"title_matcher", "spatial_grader">>,
     <<"title_matcher", "time_grader">>,
     <<"technical_grader", "technical_summary">>,
     <<"spatial_grader", "spatial_summary">>,
     <<"title_matcher", "time_summary">>,
     <<"technical_summary", "final_summary">>,
     <<"spatial_summary", "final_summary">>,
     <<"time_summary", "final_summary">>,
     <<"final_summary", "heterogeneity_evaluator">>,
     <<"heterogeneity_evaluator", "process_selector">>,
     <<"process_selector", "boundary_judger">>,
     <<"process_selector", "industry_analyst">>,
     <<"industry_analyst", "flow_analyst">>,
     <<"flow_analyst", "flow_judger">>,
     <<"flow_judger", "flow_filter">>,
     <<"flow_filter", "workflow_restarter">>,
     <<"boundary_judger", "__end__">>,
     <<"workflow_restarter", "__end__">>}

KeyEdges ==
    {<<"__start__", "demand_extractor">>,
     <<"demand_extractor", "title_matcher">>,
     <<"title_matcher", "technical_grader">>,
     <<"title_matcher", "spatial_grader">>,
     <<"title_matcher", "time_grader">>,
     <<"technical_grader", "technical_summary">>,
     <<"spatial_grader", "spatial_summary">>,
     <<"time_grader", "time_summary">>,
     <<"technical_summary", "final_summary">>,
     <<"spatial_summary", "final_summary">>,
     <<"time_summary", "final_summary">>,
     <<"final_summary", "heterogeneity_evaluator">>,
     <<"heterogeneity_evaluator", "process_selector">>,
     <<"process_selector", "boundary_judger">>,
     <<"process_selector", "industry_analyst">>,
     <<"industry_analyst", "flow_analyst">>,
     <<"flow_analyst", "flow_judger">>,
     <<"flow_judger", "flow_filter">>,
     <<"flow_filter", "workflow_restarter">>,
     <<"boundary_judger", "__end__">>,
     <<"workflow_restarter", "__end__">>}

\* the stages that a stage of S has an edge to
Successors(S) == {e[2] : e \in {d \in KeyEdges : d[1] \in S}} \ {"__end__"}

EngineInit ==
    /\ active = Successors({"__start__"})
    /\ finished = {}
    /\ ran = [t \in QTools |-> 0]
    /\ work = [t \in KeyWorkers |-> NoWork]

EngineIdle ==
    /\ active = {}
    /\ finished = {}
    /\ ran = [t \in QTools |-> 0]
    /\ work = [t \in KeyWorkers |-> NoWork]

KeyRunning == entry = "lcaKeyGraph" /\ node \notin {"__end__", "threw"}

\* the stage n of the current step returns
KeyFinishes(n) ==
    /\ active' = active \ {n}
    /\ finished' = finished \cup {n}
    /\ ran' = [ran EXCEPT ![n] = @ + 1]
    /\ UNCHANGED node

\* the stages that return their response and nothing the run depends on
KeyPlainStages ==
    {"demand_extractor", "heterogeneity_evaluator", "process_selector",
     "industry_analyst", "flow_analyst"}

KeyStep ==
    /\ KeyRunning
    /\ \E n \in active \cap KeyPlainStages :
         /\ messages' = Concat(messages, n, NoArgs)
         /\ KeyFinishes(n)
    /\ UNCHANGED <<demands, upstream_process_info, work>>
    /\ KeyFixed

\* title_matcher, lines 131-252: its response, and the rows of the process
\* sheet the oracle selected as upstream_process_info.
KeyTitleMatcher ==
    /\ KeyRunning
    /\ "title_matcher" \in active
    /\ \E selected_process_sheet \in SheetChoices :
         upstream_process_info' =
             extractSheetToJson(fileExists, workbook, selected_process_sheet,
                                <<>>, ProcessProjection).data
    /\ messages' = Concat(messages, "title_matcher", NoArgs)
    /\ KeyFinishes("title_matcher")
    /\ UNCHANGED <<demands, work>>
    /\ KeyFixed

\* The oracle answers a call a grader or a summary stage awaits, or the call
\* fails and the stage catches it: lines 363-383 and 772-786.
KeyCallSettles(t, answered) ==
    /\ KeyRunning
    /\ t \in active \cap KeyWorkers
    /\ work[t].pending > 0
    /\ work' = [work EXCEPT ![t].pending = @ - 1,
                            ![t].got = @ + (IF answered THEN 1 ELSE 0)]
    /\ UNCHANGED <<active, finished, ran, node, messages, demands, upstream_process_info>>
    /\ KeyFixed

\* Promise.all of the batch of grader g resolves, or g has no row: the calls
\* of the next batch are issued, or g returns allResponses (lines 387-414).
KeyGraderResumes(g) ==
    /\ KeyRunning
    /\ g \in active \cap SrcGraders
    /\ work[g].pending = 0
    /\ IF work[g].todo > 0
       THEN /\ work' = [work EXCEPT ![g].todo = @ - Min(batchSize, @),
                                   ![g].pending = Min(batchSize, work[g].todo)]
            /\ UNCHANGED <<active, finished, ran, node, messages>>
       ELSE /\ messages' = ConcatTimes(messages, g, NoArgs, work[g].got)
            /\ work' = [work EXCEPT ![g] = NoWork]
            /\ KeyFinishes(g)
    /\ UNCHANGED <<demands, upstream_process_info>>
    /\ KeyFixed

\* The summary stage s goes on after a call, or has no key: the call for the
\* next key is issued, or s returns allSummaries (lines 770-795).
KeySummaryResumes(s) ==
    /\ KeyRunning
    /\ s \in active \cap SummaryStages
    /\ work[s].pending = 0
    /\ IF work[s].todo > 0
       THEN /\ work' = [work EXCEPT ![s].todo = @ - 1, ![s].pending = 1]
            /\ UNCHANGED <<active, finished, ran, node, messages>>
       ELSE /\ messages' = ConcatTimes(messages, s, NoArgs, work[s].got)
            /\ work' = [work EXCEPT ![s] = NoWork]
            /\ KeyFinishes(s)
    /\ UNCHANGED <<demands, upstream_process_info>>
    /\ KeyFixed

\* final_summarizer, lines 977-1097, without a call of the oracle: one message
\* for every process_UUID that has a grade in a message of each of the three
\* summary stages.  The process_UUID and the grades are what the oracle wrote.
KeyFinalSummarizer ==
    /\ KeyRunning
    /\ "final_summary" \in active
    /\ \E f \in 0..Min(CountOf(messages, "technical_summary"),
                       Min(CountOf(messages, "spatial_summary"),
                           CountOf(messages, "time_summary"))) :
         messages' = ConcatTimes(messages, "final_summary", NoArgs, f)
    /\ KeyFinishes("final_summary")
    /\ UNCHANGED <<demands, upstream_process_info, work>>
    /\ KeyFixed

KeyBoundaryJudger ==
    /\ KeyRunning
    /\ "boundary_judger" \in active
    /\ \E answer \in BoundaryAnswers :
         messages' = Concat(messages, "boundary_judger",
                            [NoArgs EXCEPT !.whether_reach_cradle = answer])
    /\ KeyFinishes("boundary_judger")
    /\ UNCHANGED <<demands, upstream_process_info, work>>
    /\ KeyFixed

KeyFlowJudger ==
    /\ KeyRunning
    /\ "flow_judger" \in active
    /\ \E empty \in BOOLEAN, size \in 0..1 :
         messages' = Concat(messages, "flow_judger",
                            [NoArgs EXCEPT !.empty_result = empty, !.combined_flows = size])
    /\ KeyFinishes("flow_judger")
    /\ UNCHANGED <<demands, upstream_process_info, work>>
    /\ KeyFixed

KeyFlowFilter ==
    /\ KeyRunning
    /\ "flow_filter" \in active
    /\ \E all \in BOOLEAN, size \in 0..1 :
         messages' = Concat(messages, "flow_filter",
                            [NoArgs EXCEPT !.all_elementary_flows = all,
                                           !.non_elementary_flows = size])
    /\ KeyFinishes("flow_filter")
    /\ UNCHANGED <<demands, upstream_process_info, work>>
    /\ KeyFixed

\* workflow_restarter of lcaKeyAgent.ts
KeyWorkflowRestarter ==
    /\ KeyRunning
    /\ "workflow_restarter" \in active
    /\ \E newDemands \in NewDemandLists :
         /\ messages' = Concat(messages, "workflow_restarter", NoArgs)
         /\ demands' = newDemands
    /\ KeyFinishes("workflow_restarter")
    /\ UNCHANGED <<upstream_process_info, work>>
    /\ KeyFixed

\* Every stage of the step has returned: the next step is made of the stages
\* they have an edge to, each started up to its first await, and without any
\* the run ends.
KeyNextStep ==
    /\ KeyRunning
    /\ active = {}
    /\ active' = Successors(finished)
    /\ finished' = {}
    /\ node' = IF Successors(finished) = {} THEN "__end__" ELSE node
    /\ \E u \in [SummaryStages -> 0..Len(ProcessInfo)] :
         /\ \A s \in SummaryStages :
              u[s] \in IF s \in active'
                       THEN DistinctCounts(CountOf(messages, GraderOf(s)))
                       ELSE {0}
         /\ work' = [t \in KeyWorkers |->
                        IF t \notin active' THEN work[t]
                        ELSE IF t \in SrcGraders THEN GraderWork(Len(ProcessInfo))
                        ELSE SummaryWork(u[t])]
    /\ UNCHANGED <<ran, messages, demands, upstream_process_info>>
    /\ KeyFixed

\* The stages that await the oracle outside any try.
KeyThrowingStages == QTools \ (KeyWorkers \cup {"final_summary"})

\* The oracle call of such a stage that is executing fails: lcaKeyGraph.invoke
\* throws.
KeyStageThrows ==
    /\ KeyRunning
    /\ active \cap KeyThrowingStages # {}
    /\ node' = "threw"
    /\ UNCHANGED <<active, finished, ran, work, messages, demands, upstream_process_info>>
    /\ KeyFixed

KeyGraphNext ==
    \/ KeyStep
    \/ KeyTitleMatcher
    \/ \E t \in KeyWorkers, answered \in BOOLEAN : KeyCallSettles(t, answered)
    \/ \E g \in SrcGraders : KeyGraderResumes(g)
    \/ \E s \in SummaryStages : KeySummaryResumes(s)
    \/ KeyFinalSummarizer
    \/ KeyBoundaryJudger
    \/ KeyFlowJudger
    \/ KeyFlowFilter
    \/ KeyWorkflowRestarter
    \/ KeyNextStep
    \/ KeyStageThrows

\* What processDemandsRecursively does with the result of the run, lines 91-102:
\* child calls are launched when the messages hold a workflow_restarter tool
\* call and result.demands is not empty.
LaunchesChildren(msgs, newDemands) ==
    Found(msgs, "workflow_restarter") /\ Len(newDemands) > 0

----------------------------------------------------------------------------
(* The routers of the queue-flattened graph, as functions of the messages *)

\* whether_reach_cradle of a boundary_judger tool call: the args of a tool call
\* are what the oracle wrote, which bindTools does not check against the schema.
JudgmentValues == {"Yes", "No", "yes", "Maybe", NotSet}

\* The boundary_judger messages of a history, oldest first: those of up to two
\* passes.  A pass that follows another follows a judgment the router did not
\* end the run on.
JudgmentLists ==
    {<<>>} \cup {<<v>> : v \in JudgmentValues}
           \cup {<<v, w>> : v \in JudgmentValues \ {"Yes"}, w \in JudgmentValues}

\* The args of a flow_judger tool call, as the router reads them.
MergeArgs == [empty_result : BOOLEAN, combined_flows : 0..1]

EmptyMerge(args) == args.empty_result = TRUE \/ args.combined_flows = 0

\* The flow_judger messages of a history: their number, the args of the oldest
\* and those of the latest; the ones between repeat the oldest.  A pass that
\* follows another follows a merge that was not empty.
MergeHistories ==
    {h \in [count : 0..MaxRouted, oldest : MergeArgs, latest : MergeArgs] :
        /\ h.count = 0 => h.oldest = [empty_result |-> FALSE, combined_flows |-> 0] /\ h.latest = [empty_result |-> FALSE, combined_flows |-> 0]
        /\ h.count = 1 => h.oldest = h.latest
        /\ h.count > 1 => ~EmptyMerge(h.oldest)}

BoundaryHistories == [extractions : 1..MaxRouted, judgments : JudgmentLists]

RECURSIVE ConcatJudgments(_, _)
ConcatJudgments(msgs, list) ==
    IF list = <<>> THEN msgs
    ELSE ConcatJudgments(Concat(msgs, "boundary_judger",
                                [NoArgs EXCEPT !.whether_reach_cradle = Head(list)]),
                         Tail(list))

MergeMessage(args) ==
    [NoArgs EXCEPT !.empty_result = args.empty_result,
                   !.combined_flows = args.combined_flows]

\* state.messages of a history
BoundaryMessages(h) ==
    ConcatJudgments(ConcatTimes(HumanMessage(QueueInput), "demand_extractor", NoArgs,
                                h.extractions),
                    h.judgments)

MergeMessages(h) ==
    IF h.count = 0 THEN HumanMessage(QueueInput)
    ELSE Concat(ConcatTimes(HumanMessage(QueueInput), "flow_judger",
                            MergeMessage(h.oldest), h.count - 1),
                "flow_judger", MergeMessage(h.latest))

RouterInit ==
    /\ \/ entry = "shouldContinueBoundaryAnalysis" /\ history \in BoundaryHistories
       \/ entry = "shouldContinueFlowJudger" /\ history \in MergeHistories
    /\ route = ""

RouterIdle ==
    /\ history = <<>>
    /\ route = ""

RouteBoundary ==
    /\ entry = "shouldContinueBoundaryAnalysis"
    /\ route = ""
    /\ route' = shouldContinueBoundaryAnalysis(BoundaryMessages(history))
    /\ UNCHANGED <<entry, history>>

RouteFlowJudger ==
    /\ entry = "shouldContinueFlowJudger"
    /\ route = ""
    /\ route' = shouldContinueFlowJudger(MergeMessages(history))
    /\ UNCHANGED <<entry, history>>

RouterNext ==
    \/ RouteBoundary
    \/ RouteFlowJudger

----------------------------------------------------------------------------
(* A second invocation of analyzeCompleteLifeCycle in the same process *)

\* The requirement texts of the second invocation: the one of the first, and
\* another of the ring.
OtherTexts == {TextRing[1], TextRing[5]}

\* The oracle of this scenario, for both invocations: a run yields no new
\* demand or one, a text one or two places on in the ring.
OneNewDemand(demand) == {<<>>} \cup {Window(RingIndex(demand) + s, 1) : s \in 1..2}

GraphResultsOne(demand) == [ps : BOOLEAN, wr : BOOLEAN, demands : OneNewDemand(demand)]

NoResults == [processSelectors |-> EmptyBag, workflowRestarters |-> EmptyBag, errors |-> <<>>]

SecondIdle ==
    /\ otherPc = "idle"
    /\ otherCalls = <<>>
    /\ otherResults = NoResults

SecondFixed == UNCHANGED <<entry, initialDemand, alcPc, calls, processSelectors,
                           workflowRestarters, errors>>

\* analyzeCompleteLifeCycle is called again while the first invocation awaits
\* its root call: lines 221-229 up to the first await of its root call.
\* processedDemands is the Set of the module, the arrays are its own.
SecondAnalyze ==
    /\ entry = "analyzeCompleteLifeCycle"
    /\ alcPc = "awaiting"
    /\ otherPc = "idle"
    /\ \E demand \in OtherTexts :
         LET st == EnterCall([calls |-> <<>>, processed |-> {}], Root, demand, 0, 0)
         IN  /\ otherCalls' = st.calls
             /\ processedDemands' = st.processed
    /\ otherResults' = NoResults
    /\ otherPc' = "awaiting"
    /\ SecondFixed

\* lcaKeyGraph.invoke of its call id throws: lines 131-135.
SecondInvokeThrows(id) ==
    /\ entry = "analyzeCompleteLifeCycle"
    /\ otherCalls[id].pc = "invoke"
    /\ otherCalls' = [otherCalls EXCEPT ![id].pc = "returned", ![id].ret = "caught"]
    /\ UNCHANGED <<processedDemands, otherPc, otherResults>>
    /\ SecondFixed

\* One iteration of the loop of processInBatches for its call id at index i:
\* the child calls test and extend the same processedDemands.
SecondLaunchBatch(made, id, list, i) ==
    LET st == MapBatch([calls |-> made, processed |-> processedDemands],
                       id, list, i + 1, BatchEnd(list, i), i)
    IN  /\ otherCalls' = [st.calls EXCEPT ![id].pc = "batch", ![id].i = i,
                                          ![id].newDemands = list]
        /\ processedDemands' = st.processed

\* lcaKeyGraph.invoke of its call id resolves with result r: lines 80-130 up to
\* the await of the first batch, or to the return.
SecondInvokeReturns(id, r) ==
    /\ entry = "analyzeCompleteLifeCycle"
    /\ otherCalls[id].pc = "invoke"
    /\ otherResults' =
         [otherResults EXCEPT
            !.processSelectors = IF r.ps THEN Push(@, id) ELSE @,
            !.workflowRestarters = IF r.wr THEN Push(@, id) ELSE @]
    /\ IF r.wr /\ Len(r.demands) > 0
       THEN SecondLaunchBatch(WithSelectorMessage(otherCalls, id, r.ps), id, r.demands, 0)
       ELSE /\ otherCalls' = [WithSelectorMessage(otherCalls, id, r.ps)
                                 EXCEPT ![id].pc = "returned", ![id].ret = "ok"]
            /\ UNCHANGED processedDemands
    /\ UNCHANGED otherPc
    /\ SecondFixed

SecondBatchSettled(id) ==
    \A c \in DOMAIN otherCalls :
        (c # Root /\ Parent(c) = id /\ otherCalls[c].wave = otherCalls[id].i)
            => otherCalls[c].pc = "returned"

\* Promise.all of the current batch of its call id resolves.
SecondBatchResolved(id) ==
    /\ entry = "analyzeCompleteLifeCycle"
    /\ otherCalls[id].pc = "batch"
    /\ SecondBatchSettled(id)
    /\ LET next == otherCalls[id].i + CONCURRENCY_LIMIT IN
       IF next < Len(otherCalls[id].newDemands)
       THEN SecondLaunchBatch(otherCalls, id, otherCalls[id].newDemands, next)
       ELSE /\ otherCalls' = [otherCalls EXCEPT ![id].pc = "returned", ![id].ret = "ok"]
            /\ UNCHANGED processedDemands
    /\ UNCHANGED <<otherPc, otherResults>>
    /\ SecondFixed

\* lines 229-256: its root call has returned.
SecondAnalyzeReturns ==
    /\ entry = "analyzeCompleteLifeCycle"
    /\ otherPc = "awaiting"
    /\ otherCalls[Root].pc = "returned"
    /\ otherResults' = [otherResults EXCEPT
                          !.errors = IF HasError(otherCalls[Root]) THEN Append(@, Root) ELSE @]
    /\ otherPc' = "done"
    /\ UNCHANGED <<processedDemands, otherCalls>>
    /\ SecondFixed

SecondNext ==
    \/ SecondAnalyze
    \/ \E id \in DOMAIN otherCalls : SecondInvokeThrows(id)
    \/ \E id \in DOMAIN otherCalls :
         \E r \in GraphResultsOne(otherCalls[id].demand) : SecondInvokeReturns(id, r)
    \/ \E id \in DOMAIN otherCalls : SecondBatchResolved(id)
    \/ SecondAnalyzeReturns

CtlNextOne ==
    \/ Analyze
    \/ \E id \in DOMAIN calls : InvokeThrows(id)
    \/ \E id \in DOMAIN calls :
         \E r \in GraphResultsOne(calls[id].demand) : InvokeReturns(id, r)
    \/ \E id \in DOMAIN calls : BatchResolved(id)
    \/ AnalyzeReturns

StagesIdle ==
    /\ JudgeIdle /\ FinalIdle /\ EngineIdle /\ FileIdle /\ SheetIdle /\ SourceIdle
    /\ RouterIdle /\ SecondIdle

----------------------------------------------------------------------------
vars == <<entry, ctlVars, queueVars, keyVars, graderVars, selVars, sumVars, stageVars>>

\* The tree-recursive controller, nothing else running.
Init ==
    /\ entry = "analyzeCompleteLifeCycle"
    /\ CtlInit
    /\ QueueInit
    /\ KeyIdle
    /\ GraderIdle
    /\ SelIdle
    /\ SumIdle
    /\ StagesIdle

Next == CtlNext /\ UNCHANGED <<queueVars, keyVars, graderVars, selVars, sumVars, stageVars>>

\* The controller under every oracle behaviour of the bounded family.
Spec == Init /\ [][Next]_vars

\* The same, with every enabled continuation eventually run: the oracle answers
\* every call (it resolves or throws) and the event loop runs what is ready.
FairSpec == Spec /\ WF_vars(Next)

\* The controller, and a second invocation of analyzeCompleteLifeCycle made
\* while the first runs.
NextConcurrent ==
    \/ CtlNextOne /\ UNCHANGED <<queueVars, keyVars, graderVars, selVars, sumVars, stageVars>>
    \/ SecondNext /\ UNCHANGED <<queueVars, keyVars, graderVars, selVars, sumVars,
                                 judgerVars, finalVars, engineVars, fileVars, sheetVars,
                                 sourceVars, routerVars>>

SpecConcurrent == Init /\ [][NextConcurrent]_vars

\* The controller with the oracle that yields exactly two new demands per run.
NextTwo == CtlNextTwo /\ UNCHANGED <<queueVars, keyVars, graderVars, selVars, sumVars, stageVars>>

SpecTwo == Init /\ [][NextTwo]_vars

\* One run of the queue-flattened graph.
InitQueue ==
    /\ entry = "graph"
    /\ CtlInit
    /\ QueueInit
    /\ KeyIdle
    /\ GraderIdle
    /\ SelIdle
    /\ SumIdle
    /\ StagesIdle

NextQueue == QueueNext /\ UNCHANGED <<ctlVars, keyVars, graderVars, selVars, sumVars, stageVars>>

SpecQueue == InitQueue /\ [][NextQueue]_vars

\* The same, with the engine running the next stage as long as there is one and
\* the oracle answering every call.
FairSpecQueue == SpecQueue /\ WF_vars(NextQueue)

\* The canonical key of a text, and of that key.
InitKey ==
    /\ entry = "canonicalize"
    /\ CtlInit
    /\ QueueInit
    /\ KeyInit
    /\ GraderIdle
    /\ SelIdle
    /\ SumIdle
    /\ StagesIdle

NextKey == KeyNext /\ UNCHANGED <<ctlVars, queueVars, graderVars, selVars, sumVars, stageVars>>

SpecKey == InitKey /\ [][NextKey]_vars

\* The two places that work in batches: either one analysis whose first run
\* yields more new demands than a batch holds, or one execution of technical_grader.
InitWave ==
    /\ CtlInit
    /\ QueueInit
    /\ KeyIdle
    /\ \/ entry = "analyzeCompleteLifeCycle" /\ GraderIdle
       \/ entry = "technical_grader" /\ GraderInit
    /\ SelIdle
    /\ SumIdle
    /\ StagesIdle

NextWave ==
    \/ CtlNextWave /\ UNCHANGED <<queueVars, keyVars, graderVars, selVars, sumVars, stageVars>>
    \/ GraderNext /\ UNCHANGED <<ctlVars, queueVars, keyVars, selVars, sumVars, stageVars>>

SpecWave == InitWave /\ [][NextWave]_vars

\* One run of lcaKeyGraph.
InitKeyGraph ==
    /\ entry = "lcaKeyGraph"
    /\ CtlInit
    /\ QueueInit
    /\ KeyIdle
    /\ GraderIdle
    /\ SelIdle
    /\ SumIdle
    /\ JudgeIdle
    /\ FinalIdle
    /\ EngineInit
    /\ SheetIdle
    /\ KeySourceInit
    /\ RouterIdle
    /\ SecondIdle

NextKeyGraph ==
    KeyGraphNext /\ UNCHANGED <<ctlVars, keyVars, graderVars, selVars, sumVars,
                                 judgerVars, finalVars, sheetVars,
                              routerVars, secondVars>>

SpecKeyGraph == InitKeyGraph /\ [][NextKeyGraph]_vars

\* One execution of process_selector.
InitSelect ==
    /\ entry = "process_selector"
    /\ CtlInit
    /\ QueueInit
    /\ KeyIdle
    /\ GraderIdle
    /\ SelInit
    /\ SumIdle
    /\ StagesIdle

NextSelect == SelNext /\ UNCHANGED <<ctlVars, queueVars, keyVars, graderVars, sumVars, stageVars>>

SpecSelect == InitSelect /\ [][NextSelect]_vars

\* The summary of the technical grades of one process.
InitSummary ==
    /\ entry = "summarize_technical_grades"
    /\ CtlInit
    /\ QueueInit
    /\ KeyIdle
    /\ GraderIdle
    /\ SelIdle
    /\ SumInit
    /\ StagesIdle

NextSummary == SumNext /\ UNCHANGED <<ctlVars, queueVars, keyVars, graderVars, selVars, stageVars>>

SpecSummary == InitSummary /\ [][NextSummary]_vars

\* One execution of flow_judger, and a second one.
InitFlowJudger ==
    /\ entry = "flow_judger"
    /\ CtlInit
    /\ QueueInit
    /\ KeyIdle
    /\ GraderIdle
    /\ SelIdle
    /\ SumIdle
    /\ JudgeInit
    /\ FinalIdle
    /\ EngineIdle
    /\ FileIdle
    /\ SheetIdle
    /\ SourceIdle
    /\ RouterIdle
    /\ SecondIdle

NextFlowJudger ==
    JudgeNext /\ UNCHANGED <<ctlVars, queueVars, keyVars, graderVars, selVars, sumVars,
                              finalVars, engineVars, fileVars, sheetVars, sourceVars,
                              routerVars, secondVars>>

SpecFlowJudger == InitFlowJudger /\ [][NextFlowJudger]_vars

\* One execution of final_summarizer.
InitFinal ==
    /\ entry = "final_summarizer"
    /\ CtlInit
    /\ QueueInit
    /\ KeyIdle
    /\ GraderIdle
    /\ SelIdle
    /\ SumIdle
    /\ JudgeIdle
    /\ FinalInit
    /\ EngineIdle
    /\ FileIdle
    /\ SheetIdle
    /\ SourceIdle
    /\ RouterIdle
    /\ SecondIdle

NextFinal ==
    FinalNext /\ UNCHANGED <<ctlVars, queueVars, keyVars, graderVars, selVars, sumVars,
                              judgerVars, engineVars, fileVars, sheetVars, sourceVars,
                              routerVars, secondVars>>

SpecFinal == InitFinal /\ [][NextFinal]_vars

\* One call of extractSheetToJson.
InitSheet ==
    /\ entry = "extractSheetToJson"
    /\ CtlInit
    /\ QueueInit
    /\ KeyIdle
    /\ GraderIdle
    /\ SelIdle
    /\ SumIdle
    /\ JudgeIdle
    /\ FinalIdle
    /\ EngineIdle
    /\ SheetInit
    /\ SourceIdle
    /\ RouterIdle
    /\ SecondIdle

NextSheet ==
    SheetNext /\ UNCHANGED <<ctlVars, queueVars, keyVars, graderVars, selVars, sumVars,
                              judgerVars, finalVars, engineVars, sourceVars,
                              routerVars, secondVars>>

SpecSheet == InitSheet /\ [][NextSheet]_vars

\* One call of a router of the queue-flattened graph.
InitRouter ==
    /\ CtlInit
    /\ QueueInit
    /\ KeyIdle
    /\ GraderIdle
    /\ SelIdle
    /\ SumIdle
    /\ JudgeIdle
    /\ FinalIdle
    /\ EngineIdle
    /\ FileIdle
    /\ SheetIdle
    /\ SourceIdle
    /\ RouterInit
    /\ SecondIdle

NextRouter ==
    RouterNext /\ UNCHANGED <<ctlVars, queueVars, keyVars, graderVars, selVars, sumVars,
                               judgerVars, finalVars, engineVars, fileVars, sheetVars,
                               sourceVars, secondVars>>

SpecRouter == InitRouter /\ [][NextRouter]_vars

\* The first stages of a run of lcaKeyGraph, over every state of the spreadsheet.
InitSource ==
    /\ entry = "data source"
    /\ CtlInit
    /\ QueueInit
    /\ KeyIdle
    /\ GraderIdle
    /\ SelIdle
    /\ SumIdle
    /\ JudgeIdle
    /\ FinalIdle
    /\ EngineIdle
    /\ SheetIdle
    /\ SourceInit
    /\ RouterIdle
    /\ SecondIdle

NextSource ==
    SourceNext /\ UNCHANGED <<ctlVars, queueVars, keyVars, graderVars, selVars, sumVars,
                               judgerVars, finalVars, engineVars, sheetVars,
                               routerVars, secondVars>>

SpecSource == InitSource /\ [][NextSource]_vars

----------------------------------------------------------------------------
(* Claims about the tree-recursive controller *)

Key(id) == canonicalize(calls[id].demand)

\* The calls that reached lcaKeyGraph.invoke.
Invoked(id) == calls[id].ret \notin {"depth", "duplicate", "threw"}

\* C1: within one top-level analysis the workflow graph is invoked at most once
\* per canonical key, under every interleaving of the child branches, and the
\* key of every invoked call is in processedDemands from the step that invokes it.
C1_InvokedOncePerKey ==
    /\ \A c, d \in DOMAIN calls :
         (c # d /\ Invoked(c) /\ Invoked(d)) => Key(c) # Key(d)
    /\ \A c \in DOMAIN calls : Invoked(c) => Key(c) \in processedDemands

\* A requirement spelled differently from an invoked one, with the same key,
\* was skipped as a duplicate in another branch of the call tree.
C1_Witness ==
    \E c, d \in DOMAIN calls :
        /\ Invoked(c) /\ calls[d].ret = "duplicate"
        /\ Key(c) = Key(d) /\ calls[c].demand # calls[d].demand
        /\ d # Root /\ Parent(d) # c /\ (c = Root \/ Parent(c) # Parent(d))

\* C2: no workflow run is started at depth >= 3: every invoked call has depth 0, 1 or 2.
C2_InvokedDepthBelowMax ==
    \A c \in DOMAIN calls : Invoked(c) => calls[c].depth \in {0, 1, 2}

\* A requirement with a key never seen was rejected at depth 3, below a run of depth 2.
C2_Witness ==
    \E c \in DOMAIN calls :
        /\ calls[c].depth = 3 /\ calls[c].ret = "depth"
        /\ Key(c) \notin processedDemands
        /\ Invoked(Parent(c)) /\ calls[Parent(c)].depth = 2

ChildAdmissions == Cardinality(DOMAIN calls \ {Root})

\* C3: with max depth 3 and an oracle yielding exactly two new demands per run,
\* at most 14 calls of processDemandsRecursively are made with depth >= 1.
C3_AtMost14ChildAdmissions == ChildAdmissions <= 14

\* The full tree: 2 + 4 + 8 child calls, the analysis finished.
C3_Witness == ChildAdmissions = 14 /\ alcPc = "done"

\* C4: analyzeCompleteLifeCycle eventually returns, whatever the oracle yields.
C4_AnalysisReturns == <>(alcPc = "done")

\* An analysis that returned after runs at every depth, one of which threw.
C4_Witness ==
    /\ alcPc = "done"
    /\ \E c, d \in DOMAIN calls :
         calls[c].depth = 2 /\ Invoked(c) /\ calls[d].ret = "caught"

----------------------------------------------------------------------------
(* Claims about the queue-flattened workflow graph *)

Extractions == BagCardinality(extracted)

\* C5: no requirement is admitted once the iteration count has reached 10: at
\* most 10 requirements are extracted by demand_extractor in one run.
C5_AtMostTenExtracted == Extractions <= 10

\* C6: no sub-requirement is processed twice: no two requirements extracted by
\* demand_extractor in one run have the same canonical key.
C6_NoKeyExtractedTwice ==
    \A t, u \in BagToSet(extracted) :
        /\ CopiesIn(t, extracted) = 1
        /\ canonicalize(t) = canonicalize(u) => t = u

\* C7: every run of the graph reaches __end__.
C7_RunReachesEnd == <>(node = "__end__")

\* A run ended by the iteration limit, after workflow_restarter had led back to
\* demand_extractor more than once.
C7_Witness ==
    /\ node = "__end__"
    /\ iteration_count >= 2
    /\ IterationLimitExceeded(CountOf(messages, "demand_extractor"))

----------------------------------------------------------------------------
(* Claims about the canonical key *)

\* C8: the canonical key function is idempotent: the key of a key is that key.
C8_CanonicalizeIdempotent == keyPc = "key of key" => keyTwice = keyOnce

----------------------------------------------------------------------------
(* Claims about the batches of the controller and of technical_grader *)

ChildrenOf(id) == {c \in DOMAIN calls : c # Root /\ Parent(c) = id}

\* C9: no item of a later wave is started before every item of the waves before
\* it has finished, successfully or not: in the controller the child calls of
\* one parent, in technical_grader the oracle calls of one execution.
C9_WaveBarrier ==
    /\ \A c, d \in DOMAIN calls :
         (c # Root /\ d # Root /\ Parent(c) = Parent(d) /\ calls[c].wave < calls[d].wave)
            => calls[c].pc = "returned"
    /\ \A j, k \in DOMAIN grading :
         grading[j].batch < grading[k].batch => grading[j].outcome # "pending"

\* The second wave of child calls runs after a child call of the first wave
\* threw and the others returned.
C9_Witness ==
    \E c, d \in DOMAIN calls :
        /\ c # Root /\ d # Root /\ Parent(c) = Parent(d)
        /\ calls[c].wave = 0 /\ calls[c].ret = "caught"
        /\ calls[d].wave = CONCURRENCY_LIMIT /\ calls[d].pc = "invoke"

InFlight(id) == {c \in ChildrenOf(id) : calls[c].pc # "returned"}
GradesInFlight == {k \in DOMAIN grading : grading[k].outcome = "pending"}

\* C10: at most 5 child runs launched by the same parent are in flight, and at
\* most 5 oracle calls of one execution of technical_grader.
C10_AtMostFiveInFlight ==
    /\ \A id \in DOMAIN calls : Cardinality(InFlight(id)) <= 5
    /\ Cardinality(GradesInFlight) <= 5

\* Five child runs of one parent are in flight while further new demands wait.
C10_Witness ==
    \E id \in DOMAIN calls :
        /\ Cardinality(InFlight(id)) = 5
        /\ Len(calls[id].newDemands) > CONCURRENCY_LIMIT
        /\ calls[id].i = 0

----------------------------------------------------------------------------
(* Claims about failures *)

\* C11: a failure of one item of a wave aborts neither its siblings nor the
\* later waves: a call of the controller that has returned after launching a
\* wave has launched a child call for every one of its new demands, and an
\* execution of technical_grader that has returned has started, and awaited,
\* the oracle call of every candidate.
C11_FailureAbortsNothing ==
    /\ \A id \in DOMAIN calls :
         (calls[id].pc = "returned" /\ Len(calls[id].newDemands) > 0)
            => \A j \in 1..Len(calls[id].newDemands) : Append(id, j) \in DOMAIN calls
    /\ graderPc = "returned"
         => /\ DOMAIN grading = 1..Len(processInfo)
            /\ \A k \in DOMAIN grading : grading[k].outcome # "pending"

Caught == {id \in DOMAIN calls : calls[id].ret = "caught"}
Recorded == {errors[k] : k \in 1..Len(errors)}

\* C12: when analyzeCompleteLifeCycle has returned, the errors list holds an
\* entry for every admitted requirement, root or descendant, whose workflow run
\* failed with an exception.
C12_EveryFailureRecorded == alcPc = "done" => Caught \subseteq Recorded

RejectedForDepth == {id \in DOMAIN calls : calls[id].ret = "depth"}

\* C13: the result returned for a requirement rejected at the depth cap
\* carries no error flag, and the rejection adds no entry to the errors list.
C13_DepthCapIsNoError ==
    \A id \in RejectedForDepth : ~HasError(calls[id]) /\ id \notin Recorded

----------------------------------------------------------------------------
(* Claims about the boundary judgment *)

\* C14: a run of lcaKeyGraph whose boundary judgment is Yes yields no
\* sub-requirements, and the controller launches no child run for it.
C14_CradleStopsRecursion ==
    (node = "__end__" /\ FirstArgs(messages, "boundary_judger").whether_reach_cradle = "Yes")
        => demands = <<>> /\ ~LaunchesChildren(messages, demands)

\* C15: on every pass of the queue-flattened graph, the first and the later
\* ones, a boundary judgment of Yes made in that pass ends the run:
\* industry_analyst is not the next stage.
C15_CradleEndsEveryPass ==
    (entry = "graph" /\ node = "industry_analyst")
        => LatestJudgment(messages).whether_reach_cradle # "Yes"

----------------------------------------------------------------------------
(* Claims about the selection and the consensus *)

\* C16: the selection is a member of the candidate pool, and there is no
\* selection if and only if the pool is empty.
C16_SelectionFromPool ==
    selPc = "returned"
        => /\ selectedProcessUUID # NoSelection => selectedProcessUUID \in DOMAIN allProcesses
           /\ selectedProcessUUID = NoSelection <=> DOMAIN allProcesses = {}

\* C17: for a non-empty pool the technical grade of the selected candidate is
\* the minimum technical grade of the pool.
C17_SelectionHasBestTechnical ==
    (selPc = "returned" /\ DOMAIN allProcesses # {})
        => /\ selectedProcessUUID \in DOMAIN allProcesses
           /\ \A y \in DOMAIN allProcesses :
                allProcesses[selectedProcessUUID].technical <= allProcesses[y].technical

\* C18: under the order technical, spatial, temporal, flowCount the selection
\* is one of the candidates left after filtering, criterion by criterion, to
\* those tied for the best value; for the pool of the example it is B.
C18_SelectionIsLexicographic ==
    (selPc = "returned" /\ heterogeneity = "RESULT_B" /\ DOMAIN allProcesses # {})
        => /\ selectedProcessUUID \in Tournament(allProcesses, DOMAIN allProcesses, OrderB)
           /\ allProcesses = ExamplePool => selectedProcessUUID = "B"

\* the sheet s is better than the sheet t: better on the first criterion of the
\* order on which they differ
RECURSIVE Better(_, _, _)
Better(s, t, order) ==
    /\ order # <<>>
    /\ \/ Value(s, Head(order)) < Value(t, Head(order))
       \/ /\ Value(s, Head(order)) = Value(t, Head(order))
          /\ Better(s, t, Tail(order))

ClaimedOrder(h) ==
    IF h = "RESULT_A" THEN <<"technical", "temporal", "spatial", "flowCount">>
    ELSE <<"technical", "spatial", "temporal", "flowCount">>

\* C19: no candidate of the pool is better than the selected one under the
\* order (technical, temporal, spatial, flowCount) for RESULT_A and (technical,
\* spatial, temporal, flowCount) for RESULT_B, the grades minimised and
\* flowCount maximised.
C19_OrderFollowsHeterogeneity ==
    (selPc = "returned" /\ DOMAIN allProcesses # {})
        => /\ selectedProcessUUID \in DOMAIN allProcesses
           /\ \A y \in DOMAIN allProcesses :
                ~Better(allProcesses[y], allProcesses[selectedProcessUUID],
                        ClaimedOrder(heterogeneity))

Occurrences(list, v) == Cardinality({k \in 1..Len(list) : list[k] = v})
Modes(list) ==
    {v \in 1..MaxGrade :
        /\ Occurrences(list, v) > 0
        /\ \A w \in 1..MaxGrade : Occurrences(list, w) <= Occurrences(list, v)}
LowestMode(list) == CHOOSE v \in Modes(list) : \A w \in Modes(list) : v <= w

\* C20: the consensus grade of a non-empty sample list is defined, and it is
\* the lowest of the most frequent sample values.
C20_ConsensusIsLowestMode ==
    sumPc = "returned" => summary = LowestMode(grades)

\* C21: two executions of the summary stage on the same grades of a process
\* yield the same final grade.
C21_ConsensusDeterministic ==
    sumPc = "returned twice" => summaryAgain = summary

----------------------------------------------------------------------------
(* Claims about the merge of the flow lists *)

\* C22: the combined flows returned by flow_judger hold exactly one entry for
\* every flow of any flow_analyst output, with the highest relevance any output
\* gives to that flow.
C22_MergeKeepsHighest ==
    judgePc = "returned" => combinedFlows = Merge(JudgerOutputs(flowAnalystResults))

\* C23: the combined flows do not depend on the order of the flow_analyst
\* outputs, and combining the combined flows alone yields them again.
C23_MergeCommutativeIdempotent ==
    judgePc = "returned twice" => combinedAgain = combinedFlows

----------------------------------------------------------------------------
(* Claims about the final summaries *)

\* the process_UUIDs that have a final summary
Summarized == {f.process_UUID : f \in finalSummaries}

\* a summary of the list is one of the process
HasSummary(list, u) == \E k \in DOMAIN list : list[k].process_UUID = u

\* the latest summary of the process in the list carries a grade
HasGrade(list, u) ==
    \E k \in DOMAIN list :
        /\ list[k].process_UUID = u
        /\ list[k].grade # ""
        /\ \A j \in DOMAIN list : j > k => list[j].process_UUID # u

\* C24, as stated: a process has a final summary if and only if the run holds
\* a technical, a spatial and a time summary of its process_UUID.
C24_FinalIffThreeSummaries ==
    finalPc = "returned" =>
        \A u \in Candidates :
            u \in Summarized <=> /\ HasSummary(technicalSummaries, u)
                                 /\ HasSummary(spatialSummaries, u)
                                 /\ HasSummary(timeSummaries, u)

\* C24, amended: a process has a final summary if and only if on each of the
\* three axes the latest summary of its process_UUID carries a non-empty grade;
\* the final summary carries these three grades.
C24_FinalIffThreeGrades ==
    finalPc = "returned" =>
        /\ \A u \in Candidates :
              u \in Summarized <=> /\ HasGrade(technicalSummaries, u)
                                   /\ HasGrade(spatialSummaries, u)
                                   /\ HasGrade(timeSummaries, u)
        /\ \A f \in finalSummaries :
              /\ ~Falsy(f.technical_representativeness)
              /\ ~Falsy(f.spatial_representativeness)
              /\ ~Falsy(f.time_representativeness)

\* One process has its final summary, and another one, graded on two axes
\* only, has none.
C24_Witness ==
    /\ finalPc = "returned"
    /\ "A" \in Summarized
    /\ "B" \notin Summarized
    /\ HasGrade(technicalSummaries, "B")
    /\ HasGrade(spatialSummaries, "B")
    /\ ~HasSummary(timeSummaries, "B")

----------------------------------------------------------------------------
(* Claims about the order of the stages of lcaKeyGraph *)

\* the stage is executing or has executed
Started(stage) == stage \in active \/ ran[stage] > 0
\* the stage has executed once and is not executing
FinishedOnce(stage) == stage \notin active /\ ran[stage] = 1

\* C25: final_summary executes once in a run, after technical_summary,
\* spatial_summary and time_summary have all returned, and each of these
\* executes after its grader has returned.
C25_FinalSummaryJoins ==
    /\ ran["final_summary"] + (IF "final_summary" \in active THEN 1 ELSE 0) <= 1
    /\ node = "__end__" => ran["final_summary"] = 1
    /\ Started("final_summary") => \A s \in SummaryStages : FinishedOnce(s)
    /\ \A s \in SummaryStages : Started(s) => FinishedOnce(GraderOf(s))

\* final_summary is about to execute while every summary stage has returned,
\* and a run has ended.
C25_Witness ==
    /\ node = "__end__"
    /\ ran["final_summary"] = 1
    /\ \A s \in SummaryStages : ran[s] = 1

----------------------------------------------------------------------------
(* Claims about the spreadsheet *)

\* the row meets every condition of the list
Meets(row, conditions) ==
    \A k \in DOMAIN conditions :
        /\ conditions[k].column \in DOMAIN row
        /\ row[conditions[k].column] = conditions[k].value

\* the rows of the sheet asked for that meet filterConditions, in their order
Matching == SelectSeq(workbook[sheetName], LAMBDA row : Meets(row, filterConditions))

\* C27: every row returned under a projection has the projected columns as its
\* keys, no more and no fewer; a projected column the source row lacks has the
\* value null, and every other one the value of the source row.
C27_ProjectionShapesRows ==
    (sheetPc = "returned" /\ extractColumns.given /\ sheetResult.error = NoError) =>
        /\ Len(sheetResult.data) = Len(Matching)
        /\ \A k \in DOMAIN sheetResult.data :
              /\ DOMAIN sheetResult.data[k] = extractColumns.columns
              /\ \A col \in extractColumns.columns :
                    sheetResult.data[k][col] =
                        IF col \in DOMAIN Matching[k] THEN Matching[k][col] ELSE Null

\* A row returned has a value of its source row under one projected column and
\* null under another one.
C27_Witness ==
    /\ sheetPc = "returned"
    /\ extractColumns.given
    /\ sheetResult.error = NoError
    /\ \E k \in DOMAIN sheetResult.data :
         \E col, other \in extractColumns.columns :
            /\ sheetResult.data[k][col] = Null
            /\ sheetResult.data[k][other] \in CellValues

\* every row of the sheet asked for has a cell in every filter column
FilterColumnsExist ==
    /\ fileExists
    /\ sheetName \in DOMAIN workbook
    /\ workbook[sheetName] # <<>>
    /\ \A k \in DOMAIN filterConditions, j \in DOMAIN workbook[sheetName] :
          filterConditions[k].column \in DOMAIN workbook[sheetName][j]

\* C28: for a sheet that exists and has the filter columns the result is a
\* list of rows, never an error object; a column-not-found failure is reported
\* only for a filter column the sheet does not have.
C28_ColumnErrorOnlyIfAbsent ==
    (sheetPc = "returned" /\ FilterColumnsExist) => sheetResult.error = NoError

\* C26: when title_matcher's query of the process sheet fails, the run goes on
\* with an empty candidate pool: technical_grader grades no candidate.
C26_FailedQueryGradesNothing ==
    (srcPc = "graded" /\ sourceFailed) => gradedRows = <<>>

\* C29: when the spreadsheet file is missing, the run is aborted before any
\* stage issues an oracle call.
C29_MissingFileIsFatal ==
    (entry = "data source" /\ ~fileExists) => oracleCalls = 0

----------------------------------------------------------------------------
(* Claims about the queue of the queue-flattened graph *)

\* C30: the queued sub-requirements go through the pipeline one after the
\* other: once one is extracted, title_matcher and the stages after it run
\* for it before demand_extractor extracts the next one, so that the
\* extractions are never more than one ahead of the runs of title_matcher.
C30_QueuedItemsRunThePipeline ==
    entry = "graph" =>
        CountOf(messages, "demand_extractor") <= CountOf(messages, "title_matcher") + 1

\* C31: in every state of a run of the queue-flattened graph the flag
\* has_parallel_demands is true exactly when current_demand_index is below the
\* length of demands, that is when queued items are still pending.
C31_FlagMeansPending ==
    entry = "graph" =>
        (has_parallel_demands <=> current_demand_index < Len(demands))

\* The first of two queued items has been extracted and the second is pending;
\* and both have been extracted, the queue still holding them.
C31_Witness ==
    /\ entry = "graph"
    /\ Len(demands) = 2
    /\ \/ has_parallel_demands /\ current_demand_index = 1
       \/ ~has_parallel_demands /\ current_demand_index = 2

\* C32: when workflow_restarter generates zero new demands the run of the
\* queue-flattened graph ends: no stage is left to execute after it.
C32_NoNewDemandsEndsTheRun ==
    (/\ entry = "graph"
     /\ CountOf(messages, "workflow_restarter") > 0
     /\ demands = <<>>) => node = "__end__"

\* C33: on every pass of the queue-flattened graph process_selector reads the
\* final summary of that pass and boundary_judger the selection of that pass,
\* that is the latest message of its kind, never the one of an earlier pass.
C33_StagesReadTheirOwnPass ==
    entry = "graph" =>
        /\ node = "process_selector" =>
               FoundPlace(messages, "final_summary") = CountOf(messages, "final_summary")
        /\ node = "boundary_judger" =>
               FoundPlace(messages, "process_selector")
                   = CountOf(messages, "process_selector")

\* The judgment shouldContinueBoundaryAnalysis reads: that of the message
\* messages.find returns, NotSet when there is none.
JudgmentRead ==
    IF history.judgments = <<>> THEN NotSet ELSE history.judgments[1]

\* C34: shouldContinueBoundaryAnalysis returns continue_analysis only when the
\* judgment it reads is exactly "No"; for a missing, malformed or other value
\* of whether_reach_cradle it returns end_workflow.
C34_ContinuesOnlyOnNo ==
    (entry = "shouldContinueBoundaryAnalysis" /\ route # "") =>
        /\ route = "continue_analysis" => JudgmentRead = "No"
        /\ JudgmentRead # "No" => route = "end_workflow"

\* C35: shouldContinueFlowJudger returns continue_workflow (the edge to
\* flow_filter) exactly when at most 10 flow_judger messages exist, one is found,
\* its empty_result is not true and its combined_flows is not empty, and
\* end_workflow otherwise; so the run never goes on to flow_filter after a
\* flow_judger stage whose merge was empty.
C35_EmptyMergeStopsTheRun ==
    (entry = "shouldContinueFlowJudger" /\ route # "") =>
        /\ route = "continue_workflow"
              <=> (history.count <= 10 /\ history.count > 0 /\ ~EmptyMerge(history.oldest))
        /\ route \in {"continue_workflow", "end_workflow"}
        /\ EmptyMerge(history.latest) => route = "end_workflow"

\* C36: when analyzeCompleteLifeCycle is invoked a second time while a first
\* invocation runs, the first still invokes the workflow graph at most once per
\* canonical key.
C36_FirstAnalysisKeepsItsKeys ==
    otherPc # "idle" =>
        \A c, d \in DOMAIN calls :
            (c # d /\ Invoked(c) /\ Invoked(d)) => Key(c) # Key(d)

\* The calls for which lcaKeyGraph.invoke was called.
Runs == {c \in DOMAIN calls : Invoked(c)}

\* C37: in every state processedDemands is the set of the canonical keys of the
\* requirements for which a workflow run was started; a requirement rejected
\* at the depth cap adds no key, and no key is added twice: there are as many
\* keys as runs.
C37_VisitedAreTheRuns ==
    entry = "analyzeCompleteLifeCycle" =>
        /\ processedDemands = {Key(c) : c \in Runs}
        /\ Cardinality(processedDemands) = Cardinality(Runs)
        /\ \A c \in DOMAIN calls :
              calls[c].ret = "depth" =>
                  (Key(c) \in processedDemands <=> \E d \in Runs : Key(d) = Key(c))

\* Three runs were started, a fourth requirement was skipped as a duplicate,
\* and one rejected at the depth cap left its key out of the set.
C37_Witness ==
    /\ Cardinality(processedDemands) >= 3
    /\ \E c, d \in DOMAIN calls :
         /\ calls[c].ret = "depth" /\ Key(c) \notin processedDemands
         /\ calls[d].ret = "duplicate" /\ Key(d) \in processedDemands

\* The calls whose workflow run failed: lcaKeyGraph.invoke threw.
FailedRuns == {c \in Runs : calls[c].ret = "caught" /\ calls[c].newDemands = <<>>}

\* C38: the key of a requirement whose workflow run failed stays in
\* processedDemands up to the end of the analysis and after it, so every other
\* requirement with that key is skipped: no run is started for it, below the
\* depth cap it returns as a duplicate, without an error flag, and no entry of
\* the errors list is made for it.
C38_FailedKeyIsNotRetried ==
    entry = "analyzeCompleteLifeCycle" =>
        \A c \in FailedRuns :
            /\ Key(c) \in processedDemands
            /\ \A d \in DOMAIN calls \ {c} :
                  Key(d) = Key(c) =>
                      /\ ~Invoked(d)
                      /\ d \notin Recorded
                      /\ ~DepthLimitReached(calls[d].depth) =>
                             calls[d].ret = "duplicate" /\ ~HasError(calls[d])

\* The analysis has returned; the run of a sub-requirement failed, and a
\* sub-requirement with the same key, one level below in another branch, was
\* skipped as a duplicate.
C38_Witness ==
    /\ alcPc = "done"
    /\ \E c \in FailedRuns, d \in DOMAIN calls :
         /\ c # Root
         /\ calls[d].ret = "duplicate"
         /\ Key(d) = Key(c)
         /\ calls[d].depth > calls[c].depth
         /\ Parent(d) # c

\* The runs that completed with a process_selector message.
SelectorRuns == {c \in Runs : calls[c].processSelectorMessage}

\* C39: under every interleaving of the child runs, when
\* analyzeCompleteLifeCycle has returned (and in every state before),
\* processSelectors holds one entry for every requirement whose run completed
\* with a process_selector message and none for any other: no entry is lost or
\* made twice, and there are at most as many entries as runs.
C39_OneSelectionPerRun ==
    entry = "analyzeCompleteLifeCycle" =>
        /\ processSelectors = SetToBag(SelectorRuns)
        /\ BagCardinality(processSelectors) <= Cardinality(Runs)

\* The analysis has returned: two runs of one batch pushed their messages, a
\* run completed without one, a run failed.
C39_Witness ==
    /\ alcPc = "done"
    /\ \E c, d \in SelectorRuns : c # d /\ c # Root /\ d # Root /\ Parent(c) = Parent(d)
    /\ \E c \in Runs \ SelectorRuns : calls[c].ret = "ok"
    /\ FailedRuns # {}
    /\ BagCardinality(processSelectors) < Cardinality(Runs)

====
